---- MODULE Spec2Model ----
(***************************************************************************)
(* Verification model of the black-hole path tracer's scheduling and       *)
(* accumulation code.                                                       *)
(*                                                                          *)
(*  Spec      the interactive renderer thread (InteractiveRenderer::render) *)
(*            together with the display thread that feeds it (App::run).    *)
(*                                                                          *)
(* Pixel channels are f32 in the program.  They are modelled as exact       *)
(* non-negative rationals <<numerator, denominator>> in lowest terms, so    *)
(* that "equals the arithmetic mean" is an exact statement; f32 rounding is *)
(* not modelled.  A frame buffer is modelled by its dimensions and by the   *)
(* pixels at the probe indices ProbeIdx of its row-major pixel vector:      *)
(* every buffer operation of the program is pointwise, so a probe evolves   *)
(* exactly as the pixel at that index does.                                 *)
(***************************************************************************)
EXTENDS Integers, Sequences, FiniteSets, TLC

(***************************************************************************)
(* Bounds of the model.                                                     *)
(***************************************************************************)
\* number of Resize / SceneChange messages the display thread sends
MaxMsgs == 2
\* the same, for the configuration that refines down to full resolution
MaxMsgsFine == 1
\* InteractiveRenderer.samples, the sample budget of one batch (default 128)
Samples == 2

\* window sizes the display thread can report (stand-ins for real sizes;
\* both divide by the coarsest scale without reaching zero)
Sizes == {<<8, 8>>, <<16, 8>>}
\* the window the application is created with (1280 x 720 in the program)
InitWindow == <<16, 8>>
\* scene files that load successfully (scenes of solid objects)
Scenes == {1, 2}
\* "no scene" (Option::None)
NoScene == 0
\* indices of the pixel vector that the model follows
ProbeIdx == {0, 1, 2, 3}

(***************************************************************************)
(* f32 arithmetic, as exact rationals.                                      *)
(***************************************************************************)
Gcd[a \in Nat, b \in Nat] == IF b = 0 THEN a ELSE Gcd[b, a % b]

\* n / d in lowest terms
Frac[n \in Nat, d \in Nat] ==
    IF n = 0 THEN <<0, 1>> ELSE <<n \div Gcd[n, d], d \div Gcd[n, d]>>
FAdd[p \in Nat \X Nat, q \in Nat \X Nat] == Frac[p[1] * q[2] + q[1] * p[2], p[2] * q[2]]
FMul[p \in Nat \X Nat, q \in Nat \X Nat] == Frac[p[1] * q[1], p[2] * q[2]]
F0 == Frac[0, 1]
F1 == Frac[1, 1]

(***************************************************************************)
(* Pixel (framebuffer.rs).                                                  *)
(***************************************************************************)
PixelNew(r, g, b, a) == [r |-> r, g |-> g, b |-> b, a |-> a]
PixelBlack == PixelNew(F0, F0, F0, F1)
PixelAdd(p, q) == PixelNew(FAdd[p.r, q.r], FAdd[p.g, q.g], FAdd[p.b, q.b], FAdd[p.a, q.a])
\* AddAssign leaves alpha alone (self.a += 0.0)
PixelAddAssign(p, q) == PixelNew(FAdd[p.r, q.r], FAdd[p.g, q.g], FAdd[p.b, q.b], p.a)
PixelMul(p, f) == PixelNew(FMul[p.r, f], FMul[p.g, f], FMul[p.b, f], FMul[p.a, f])
PixelFrom(v) == PixelNew(Frac[v[1], 1], Frac[v[2], 1], Frac[v[3], 1], F1)

(***************************************************************************)
(* FrameBuffer (framebuffer.rs).                                            *)
(***************************************************************************)
ProbesBelow(n) == {i \in ProbeIdx : i < n}
\* (mutant) width and height change places
FrameBufferNewTransposed(w, h) ==
    [width |-> h, height |-> w, buffer |-> [i \in ProbesBelow(w * h) |-> PixelBlack]]
FrameBufferNew(w, h) ==
    [width |-> w, height |-> h, buffer |-> [i \in ProbesBelow(w * h) |-> PixelBlack]]

(***************************************************************************)
(* Scaling (args.rs) and the frame derived from the window.                 *)
(***************************************************************************)
X1 == 1
X2 == 2
X4 == 4
X8 == 8
Scalings == {X1, X2, X4, X8}
\* (mutant) the ladder never leaves its rung
ScaleLowerStuck(s) == s
\* the next finer rung of the ladder 8 -> 4 -> 2 -> 1
ScaleLower(s) == s \div 2
\* frame dimensions for a window at a scale (u32 division)
ScaledFrame(win, s) == [width |-> win[1] \div s, height |-> win[2] \div s]
\* dimensions of the buffers allocated for a window: the front buffer holds
\* width x height pixels of which [0, width/scale) x [0, height/scale) is valid
BufferDims(win) == win

(***************************************************************************)
(* PixelFilter (filter.rs).  The generator is a seeded Xoshiro256StarStar:  *)
(* its state is the number of values drawn since it was seeded, and the     *)
(* jitter it yields is a function of that number.                           *)
(***************************************************************************)
\* the offset (0.5, 0.5)
Center == <<"center", 0>>
\* the offset computed from the two values the generator yields after `draws`
\* values; it is taken to differ from (0.5, 0.5)
Jitter(draws) == <<"jitter", draws>>
\* BoxFilter::new
BoxFilterNew == [kind |-> "BoxFilter", first_sample |-> TRUE, draws |-> 0]
\* BlackmanHarrisFilter::new
BlackmanHarrisFilterNew == [kind |-> "BlackmanHarrisFilter", first_sample |-> FALSE, draws |-> 0]
\* PixelFilter::new of the first renderer (src/main.rs)
PixelFilterNew == [kind |-> "PixelFilter", first_sample |-> TRUE, draws |-> 0]
\* reset(): the generator is seeded again, first_sample is left as it is
FilterReset(f) == [f EXCEPT !.draws = 0]
\* next(): the value returned
FilterNextOffset(f) == IF ~f.first_sample THEN Jitter(f.draws) ELSE Center
\* next(): the filter afterwards; PixelFilter never clears first_sample
FilterNextState(f) ==
    IF ~f.first_sample THEN [f EXCEPT !.draws = f.draws + 2]
    ELSE IF f.kind = "PixelFilter" THEN f
    ELSE [f EXCEPT !.first_sample = FALSE]

(***************************************************************************)
(* RayMarcher::color_for_ray for the primary ray through a pixel: a step    *)
(* count and a colour.  For a given scene it is a function of the pixel and *)
(* of the sub-pixel offset of the pass; the table below is arbitrary but    *)
(* gives different pixels, offsets and scenes different results.            *)
(***************************************************************************)
OffsetSeed(off) == IF off[1] = "center" THEN 0 ELSE 1 + (off[2] \div 2)
\* rand_unit(): a value of rand::thread_rng(), which is seeded by the operating
\* system; what matters of it is on which side of density * dst it falls
RandUnit == {"below", "above"}
\* no value drawn
NoRand == "none"
\* scenes holding a Shading::Volumetric object, and the pixels whose primary
\* ray passes through that object
VolumetricScenes == {3}
InVolume(sc, p) == sc \in VolumetricScenes /\ p = 3
\* march_to_object, volumetric branch: the march stops inside the volume when
\* density_at(location) * dst > r
MarchToObject(sc, p, r) ==
    IF InVolume(sc, p) /\ r = "below" THEN "volume" ELSE "march"
\* the values rand_unit() can return to the rays through the pixels ps: it is
\* called only for a ray inside a volume
RandDraws(sc, ps) == IF \E p \in ps : InVolume(sc, p) THEN RandUnit ELSE {NoRand}
ColorForRay(sc, p, off, r) ==
    LET v == sc + p + OffsetSeed(off)
    IN  IF MarchToObject(sc, p, r) = "volume"
        THEN [steps |-> 1, color |-> <<3, 3, 3>>]
        ELSE [steps |-> 1 + (v % 3), color |-> <<1 + (v % 2), v % 3, 2 * ((v + 1) % 2)>>]

(***************************************************************************)
(* Messages.                                                                *)
(***************************************************************************)
MsgResize(w, h) == [type |-> "Resize", w |-> w, h |-> h, scene |-> NoScene]
MsgSceneChange(s) == [type |-> "SceneChange", w |-> 0, h |-> 0, scene |-> s]
MsgRestart == [type |-> "Restart", w |-> 0, h |-> 0, scene |-> NoScene]
MsgExit == [type |-> "Exit", w |-> 0, h |-> 0, scene |-> NoScene]

\* Region::Whole and Region::Window { x_min, x_max, y_min, y_max }
RegionWhole == [whole |-> TRUE, x_min |-> 0, x_max |-> 0, y_min |-> 0, y_max |-> 0]
RegionWindow(x0, x1, y0, y1) ==
    [whole |-> FALSE, x_min |-> x0, x_max |-> x1, y_min |-> y0, y_max |-> y1]

VARIABLES
    \* ---- render thread (InteractiveRenderer::render) ----
    rpc,            \* position: "recv", "loop", "scan", "publish", "send", "exit"
    should_render,  \* local flag
    scene,          \* Option<Scene>
    window,         \* last window size received
    frame,          \* self.frame: [width, height]
    current_scale,  \* scale the batch is rendered at
    sample,         \* loop index i
    rows_done,      \* rows of the pass in progress already computed
    back_fb,        \* back frame buffer (owned by the render thread)
    filter,         \* self.filter
    offset,         \* offset drawn for the pass in progress
    \* ---- configuration of the renderer, fixed at construction ----
    scaling,        \* self.scaling, the desired scale
    mode,           \* self.ray_marcher.mode
    threads,        \* self.threads
    samples,        \* self.samples
    region,         \* self.frame.region
    run,            \* command-line program: which render is in progress (0: none)
    \* ---- shared ----
    front_fb,       \* Arc<RwLock<FrameBuffer>>: the value
    readers,        \* threads holding the read lock
    inq,            \* inbound channel (RenderInMsg)
    outq,           \* outbound channel (RenderOutMsg::Update(scale))
    \* ---- display thread (App::run) ----
    app_pc,         \* "start", "restart2", "texture", "events", "reading", "joining", "done"
    app_scene,      \* Option<Scene> of the event loop
    nsent,          \* Resize / SceneChange messages sent so far
    budget,         \* Resize / SceneChange messages the display thread may send
    \* ---- history, for stating properties ----
    log,            \* per probe: the RayResults of the passes since sample 0
    sent,           \* scales of the Updates sent since the last Resize / SceneChange was handled
    \* ---- ray marcher (RayMarcher::color_for_ray, march_to_object) ----
    ray,            \* the ray of the call in progress: [location, direction, steps_taken]
    march_i,        \* step counter i of march_to_object
    depth,          \* depth argument of the call in progress
    max_steps,      \* self.max_steps
    max_depth,      \* self.max_depth
    max_step,       \* max_step argument (Scene::max_possible_step)
    pending,        \* mat_res of the callers waiting for their recursive call, innermost last
    result,         \* RayResult of the call that returned last
    marcher,        \* whose color_for_ray runs: "RayMarcher" (marcher.rs) or "Renderer" (renderer.rs)
    marches,        \* history: calls of march_to_object made for this path
    iteration,      \* history: what the last loop iteration of march_to_object did
    path,           \* history: per call of color_for_ray, how it ended and its material
    \* ---- pure functions under test: the call and what it returned ----
    shape,          \* the Shape a distance is asked of
    point,          \* the point
    dist,           \* what dist_fn returned
    lut_input,      \* the Vec given to LookupTable::from_vec
    lut_data,       \* self.data of the LookupTable
    lut_value,      \* the value looked up
    lut_out,        \* what lookup returned, a fraction <<numerator, denominator>>
    \* ---- history: the scene files dropped on the window ----
    dropped,        \* how the last load_path ended: "none", "ok", "err", "panic"
    \* ---- the clock of the render thread ----
    due,            \* read when a pass ends: at least 8 ms since the last publication
    published,      \* sample indices published since the batch took its present frame size
    \* ---- step statistics (static atomics of renderer.rs) ----
    total_steps,           \* TOTAL_STEPS
    max_steps_per_sample   \* MAX_STEPS_PER_SAMPLE

rvars == <<rpc, should_render, scene, window, frame, current_scale, sample, rows_done,
           back_fb, filter, offset>>
cvars == <<scaling, mode, threads, samples, region, run>>
svars == <<front_fb, readers, inq, outq>>
avars == <<app_pc, app_scene, nsent, budget>>
hvars == <<log, sent>>
lvars == <<lut_input, lut_data, lut_value, lut_out>>
ovars == <<ray, march_i, depth, max_steps, max_depth, max_step, pending, result, marcher, marches,
           iteration, path, shape, point, dist, lvars, dropped>>
tvars == <<due, published, total_steps, max_steps_per_sample>>
qvars == <<ovars, due, total_steps, max_steps_per_sample>>
uvars == <<ovars, due, published>>
mvars == <<ovars, tvars>>
vars == <<rvars, cvars, svars, avars, hvars, mvars>>

\* no ray is being marched
NoRay == [location |-> <<0, 0, 0>>, direction |-> <<0, 0, 0>>, steps_taken |-> 0]
NoResult == [steps |-> 0, color |-> <<0, 0, 0>>, set |-> FALSE]
NoIteration == [n |-> 0]
NoShape == [kind |-> "none"]
MarcherAtRest ==
    /\ ray = NoRay
    /\ march_i = 0
    /\ depth = 0
    /\ max_steps = 0
    /\ max_depth = 0
    /\ max_step = 0
    /\ pending = <<>>
    /\ result = NoResult
    /\ marcher = "RayMarcher"
    /\ marches = 0
    /\ iteration = NoIteration
    /\ path = <<>>
ShapeAtRest ==
    /\ shape = NoShape
    /\ point = <<0, 0, 0>>
    /\ dist = 0
NoLookup == <<0, 0>>
LutAtRest ==
    /\ lut_input = <<>>
    /\ lut_data = <<>>
    /\ lut_value = 0
    /\ lut_out = NoLookup
StatisticsAtRest == total_steps = 0 /\ max_steps_per_sample = 0
LoaderAtRest == dropped = "none" /\ due = FALSE /\ published = <<>> /\ StatisticsAtRest
MarchIdle == MarcherAtRest /\ ShapeAtRest /\ LutAtRest /\ LoaderAtRest

Modes == {"Samples", "Normal", "Shaded"}
\* the configurations of the renderer that are explored, each with the number
\* of messages the display thread sends to it: <<scaling, mode, threads, messages>>
Configs ==
    {<<X1, "Shaded", 1, MaxMsgsFine>>, <<X4, "Normal", 2, MaxMsgs>>, <<X8, "Samples", 1, MaxMsgs>>}
EmptyLog == [p \in ProbeIdx |-> <<>>]

\* the state after InteractiveRenderer construction, the filter being one of
\* `filters`
InitWith(configs, filters) ==
    /\ rpc = "recv"
    /\ should_render = FALSE
    /\ scene = NoScene
    /\ window = InitWindow
    /\ frame = [width |-> InitWindow[1], height |-> InitWindow[2]]
    /\ current_scale = X8
    /\ sample = 0
    /\ rows_done = {}
    /\ back_fb = FrameBufferNew(InitWindow[1], InitWindow[2])
    /\ filter \in filters
    /\ offset = Center
    /\ \E c \in configs : scaling = c[1] /\ mode = c[2] /\ threads = c[3] /\ budget = c[4]
    /\ samples = Samples
    /\ region = RegionWhole
    /\ run = 0
    /\ front_fb = FrameBufferNew(InitWindow[1], InitWindow[2])
    /\ readers = {}
    /\ inq = <<>>
    /\ outq = <<>>
    /\ app_pc = "start"
    /\ app_scene = NoScene
    /\ nsent = 0
    /\ log = EmptyLog
    /\ sent = <<>>
    /\ MarchIdle

\* Default for InteractiveRenderer: filter: Box::new(BlackmanHarrisFilter::new(1.5))
InitFor(configs) == InitWith(configs, {BlackmanHarrisFilterNew})

Init == InitFor(Configs)

(***************************************************************************)
(* Render thread.                                                           *)
(***************************************************************************)
\* (mutant) the sample loop is entered without a scene
EnterLoopAnyway(sr, sc) == sr
\* top of 'main: if should_render && scene.is_some() { for i in 0..self.samples {
EnterLoop(sr, sc) == sr /\ sc # NoScene
\* a batch starts with the filter reset
BatchFilter(f) == FilterReset(f)
TopOfMain(sr, sc) ==
    /\ rpc' = IF EnterLoop(sr, sc) THEN "loop" ELSE "recv"
    /\ sample' = 0
    /\ filter' = IF EnterLoop(sr, sc) THEN BatchFilter(filter) ELSE filter
    /\ rows_done' = {}

\* (mutant) the scale reached before the message is kept
ResetScaleKeep(win) ==
    /\ current_scale' = current_scale
    /\ frame' = ScaledFrame(win, current_scale)

\* every inbound message but Exit puts the ladder back on its coarsest rung:
\* the scale is X8 and the frame is window_size / 8
ResetScale(win) ==
    /\ current_scale' = X8
    /\ frame' = ScaledFrame(win, X8)

\* (mutant) only the back buffer is replaced
OnResizeBackOnly(m) ==
    /\ window' = <<m.w, m.h>>
    /\ back_fb' = FrameBufferNew(BufferDims(<<m.w, m.h>>)[1], BufferDims(<<m.w, m.h>>)[2])
    /\ sent' = <<>>
    /\ TopOfMain(should_render, scene)
    /\ UNCHANGED <<qvars, should_render, scene, front_fb>>

\* RenderInMsg::Resize(w, h): the back buffer and, under the write lock, the
\* front buffer are replaced by fresh ones
OnResize(m) ==
    /\ "display" \notin readers
    /\ window' = <<m.w, m.h>>
    /\ back_fb' = FrameBufferNew(BufferDims(<<m.w, m.h>>)[1], BufferDims(<<m.w, m.h>>)[2])
    /\ front_fb' = FrameBufferNew(BufferDims(<<m.w, m.h>>)[1], BufferDims(<<m.w, m.h>>)[2])
    /\ sent' = <<>>
    /\ TopOfMain(should_render, scene)
    /\ UNCHANGED <<qvars, should_render, scene>>

\* RenderInMsg::SceneChange(s)
OnSceneChange(m) ==
    /\ scene' = m.scene
    /\ should_render' = TRUE
    /\ sent' = <<>>
    /\ TopOfMain(TRUE, m.scene)
    /\ UNCHANGED <<qvars, window, back_fb, front_fb>>

\* RenderInMsg::Restart
OnRestart ==
    /\ should_render' = TRUE
    /\ TopOfMain(TRUE, scene)
    /\ UNCHANGED <<qvars, scene, window, back_fb, front_fb, sent>>

\* (mutant) Exit does not leave 'main: the thread goes back to waiting
OnExitContinue ==
    /\ rpc' = "recv"
    /\ UNCHANGED <<qvars, should_render, scene, window, frame, current_scale, sample, rows_done,
                   back_fb, filter, front_fb, sent>>

\* RenderInMsg::Exit: break 'main
OnExit ==
    /\ rpc' = "exit"
    /\ UNCHANGED <<qvars, should_render, scene, window, frame, current_scale, sample, rows_done,
                   back_fb, filter, front_fb, sent>>

\* match msg { ... }, the same arms after try_iter().next() and after recv()
HandleMsg(m) ==
    /\ inq' = Tail(inq)
    /\ CASE m.type = "Resize" -> OnResize(m) /\ ResetScale(window')
         [] m.type = "SceneChange" -> OnSceneChange(m) /\ ResetScale(window')
         [] m.type = "Restart" -> OnRestart /\ ResetScale(window')
         [] OTHER -> OnExit
    /\ published' = IF m.type \in {"Resize", "SceneChange", "Restart"} THEN <<>> ELSE published
    /\ UNCHANGED <<qvars, offset, cvars, readers, outq, avars, log>>

\* let msg = rx.recv().unwrap(); match msg { ... }
RecvMsg ==
    /\ rpc = "recv"
    /\ inq # <<>>
    /\ HandleMsg(Head(inq))

\* head of the sample loop: if let Some(msg) = rx.try_iter().next() { match msg { ... } }
TryMsg ==
    /\ rpc = "loop"
    /\ sample < samples
    /\ inq # <<>>
    /\ HandleMsg(Head(inq))

\* (mutant) when the sample loop runs out the batch is started again
LoopEndAgain ==
    /\ rpc = "loop"
    /\ sample >= samples
    /\ rpc' = "loop"
    /\ sample' = 0
    /\ UNCHANGED <<mvars, should_render, scene, window, frame, current_scale, rows_done,
                   back_fb, filter, offset, cvars, svars, avars, hvars>>

\* for i in 0..self.samples runs out
LoopEnd ==
    /\ rpc = "loop"
    /\ sample >= samples
    /\ rpc' = "recv"
    /\ UNCHANGED <<mvars, should_render, scene, window, frame, current_scale, sample, rows_done,
                   back_fb, filter, offset, cvars, svars, avars, hvars>>

\* (mutant) the pass starts without looking at the inbound queue
PassBeginUnchecked ==
    /\ rpc = "loop"
    /\ sample < samples
    /\ offset' = FilterNextOffset(filter)
    /\ filter' = FilterNextState(filter)
    /\ readers' = readers \cup {"render"}
    /\ rows_done' = {}
    /\ rpc' = "scan"
    /\ log' = IF sample = 0 THEN EmptyLog ELSE log
    /\ UNCHANGED <<mvars, should_render, scene, window, frame, current_scale, sample, back_fb,
                   cvars, front_fb, inq, outq, avars, sent>>

\* no message pending: draw the offset and take the read lock for the pass
PassBegin ==
    /\ rpc = "loop"
    /\ sample < samples
    /\ inq = <<>>
    /\ offset' = FilterNextOffset(filter)
    /\ filter' = FilterNextState(filter)
    /\ readers' = readers \cup {"render"}
    /\ rows_done' = {}
    /\ rpc' = "scan"
    /\ log' = IF sample = 0 THEN EmptyLog ELSE log
    /\ UNCHANGED <<mvars, should_render, scene, window, frame, current_scale, sample, back_fb,
                   cvars, front_fb, inq, outq, avars, sent>>

\* AtomicUsize: the counters wrap at 2^CounterWidth (64 bits in the program)
CounterWidth == 6
\* the sum of steps[p] over the pixels ps
StepSum(steps, ps) ==
    LET S[k \in 0 .. Cardinality(ProbeIdx)] ==
            IF k = 0 THEN 0 ELSE S[k - 1] + (IF (k - 1) \in ps THEN steps[k - 1] ELSE 0)
    IN S[Cardinality(ProbeIdx)]
\* the largest of steps[p] over the pixels ps and of m
StepMax(steps, ps, m) ==
    LET S[k \in 0 .. Cardinality(ProbeIdx)] ==
            IF k = 0 THEN m
            ELSE IF (k - 1) \in ps /\ steps[k - 1] > S[k - 1] THEN steps[k - 1] ELSE S[k - 1]
    IN S[Cardinality(ProbeIdx)]
\* MAX_STEPS_PER_SAMPLE.fetch_max(sample_info.steps) and
\* TOTAL_STEPS.fetch_add(sample_info.steps) for every pixel of ps
CountSteps(ps, steps) ==
    /\ total_steps' = (total_steps + StepSum(steps, ps)) % (2 ^ CounterWidth)
    /\ max_steps_per_sample' = StepMax(steps, ps, max_steps_per_sample)

\* rows of the frame: the pixel vector cut into chunks of frame.width
Rows == 0 .. (frame.height - 1)
\* scanline: pixels outside a Region::Window are skipped
InRegion(x, y) ==
    region.whole \/ ~(x >= region.x_max \/ x < region.x_min \/ y >= region.y_max \/ y < region.y_min)
ProbesInRow(y) ==
    {p \in ProbeIdx : /\ y * frame.width <= p
                      /\ p < (y + 1) * frame.width
                      /\ p \in DOMAIN back_fb.buffer
                      /\ p \in DOMAIN front_fb.buffer
                      /\ InRegion(p - y * frame.width, y)}

\* (mutant) the new colour is averaged with the pixel, whatever the sample index
BlendPixelHalf(base, out, res, i) ==
    IF mode = "Samples"
    THEN PixelAddAssign(out, PixelNew(Frac[res.steps, 1], F0, F0, F0))
    ELSE PixelAdd(PixelMul(base, Frac[1, 2]), PixelMul(PixelFrom(res.color), Frac[1, 2]))

\* the blend of one pixel (scanline): base is the input slice's pixel, out the
\* output slice's pixel before the write
BlendPixel(base, out, res, i) ==
    IF mode = "Samples"
    THEN PixelAddAssign(out, PixelNew(Frac[res.steps, 1], F0, F0, F0))
    ELSE PixelAdd(PixelMul(base, Frac[i, i + 1]), PixelMul(PixelFrom(res.color), Frac[1, i + 1]))

\* self.scanline(scene, max_step, y, slice_in, slice_out, 0, i, offset) for
\* each row y of ys
ScanRows(ys) ==
    /\ \E r \in RandDraws(scene, UNION {ProbesInRow(y) : y \in ys}) :
        /\ back_fb' = [back_fb EXCEPT !.buffer =
                          [p \in DOMAIN back_fb.buffer |->
                              IF \E y \in ys : p \in ProbesInRow(y)
                              THEN BlendPixel(front_fb.buffer[p], back_fb.buffer[p],
                                              ColorForRay(scene, p, offset, r), sample)
                              ELSE back_fb.buffer[p]]]
        /\ log' = [p \in ProbeIdx |->
                      IF \E y \in ys : p \in ProbesInRow(y)
                      THEN Append(log[p], ColorForRay(scene, p, offset, r))
                      ELSE log[p]]
        /\ CountSteps(UNION {ProbesInRow(y) : y \in ys},
                      [p \in ProbeIdx |-> ColorForRay(scene, p, offset, r).steps])
    /\ rows_done' = rows_done \cup ys
    /\ UNCHANGED <<uvars, rpc, should_render, scene, window, frame, current_scale, sample, filter,
                   offset, cvars, svars, avars, sent>>

\* if self.threads == 1: the rows are computed one after the other by the
\* render thread.  Nothing the display thread does in between is seen by the
\* loop or sees what it has written, so the loop is one step.
SerialPass ==
    /\ rpc = "scan"
    /\ threads = 1
    /\ rows_done = {}
    /\ ScanRows(Rows)

\* else: par_chunks_mut hands the rows to the pool, which computes them in
\* any order
Scanline(y) ==
    /\ rpc = "scan"
    /\ threads # 1
    /\ y \in Rows \ rows_done
    /\ ScanRows({y})

\* (mutant) the pass ends with rows still to be computed
PassEndEarly ==
    /\ rpc = "scan"
    /\ rows_done # {}
    /\ readers' = readers \ {"render"}
    /\ rpc' = "publish"
    /\ due' \in BOOLEAN
    /\ UNCHANGED <<ovars, published, total_steps, max_steps_per_sample, should_render, scene, window, frame, current_scale, sample, rows_done,
                   back_fb, filter, offset, cvars, front_fb, inq, outq, avars, hvars>>

\* all rows done: the read lock is dropped
PassEnd ==
    /\ rpc = "scan"
    /\ rows_done = Rows
    /\ readers' = readers \ {"render"}
    /\ rpc' = "publish"
    /\ due' \in BOOLEAN
    /\ UNCHANGED <<ovars, published, total_steps, max_steps_per_sample, should_render, scene, window, frame, current_scale, sample, rows_done,
                   back_fb, filter, offset, cvars, front_fb, inq, outq, avars, hvars>>

\* after a pass: one rung down the ladder with the sample index reset, or the
\* next sample once the desired scale is reached
Advance ==
    /\ rpc' = "loop"
    /\ due' = FALSE
    /\ IF current_scale > scaling
       THEN /\ current_scale' = ScaleLower(current_scale)
            /\ frame' = ScaledFrame(window, ScaleLower(current_scale))
            /\ sample' = 0
            /\ published' = <<>>
       ELSE /\ sample' = sample + 1
            /\ UNCHANGED <<current_scale, frame, published>>
    /\ UNCHANGED <<total_steps, max_steps_per_sample>>

\* std::mem::swap(&mut back_fb, &mut write_lock) under the write lock
\* (mutant) the swap without the write lock
SwapBuffersUnlocked ==
    /\ rpc = "publish"
    /\ due
    /\ front_fb' = back_fb
    /\ back_fb' = front_fb
    /\ published' = Append(published, sample)
    /\ rpc' = "send"
    /\ UNCHANGED <<qvars, should_render, scene, window, frame, current_scale, sample, rows_done,
                   filter, offset, cvars, readers, inq, outq, avars, hvars>>

\* (mutant) the swap whatever the time since the last publication
SwapBuffersEarly ==
    /\ rpc = "publish"
    /\ readers = {}
    /\ front_fb' = back_fb
    /\ back_fb' = front_fb
    /\ published' = Append(published, sample)
    /\ rpc' = "send"
    /\ UNCHANGED <<qvars, should_render, scene, window, frame, current_scale, sample, rows_done,
                   filter, offset, cvars, readers, inq, outq, avars, hvars>>

\* at least 8 ms since the last publication:
\* std::mem::swap(&mut back_fb, &mut write_lock) under the write lock
SwapBuffers ==
    /\ rpc = "publish"
    /\ due
    /\ readers = {}
    /\ front_fb' = back_fb
    /\ back_fb' = front_fb
    /\ published' = Append(published, sample)
    /\ rpc' = "send"
    /\ UNCHANGED <<qvars, should_render, scene, window, frame, current_scale, sample, rows_done,
                   filter, offset, cvars, readers, inq, outq, avars, hvars>>

\* tx.send(RenderOutMsg::Update(current_scale))
SendUpdate ==
    /\ rpc = "send"
    /\ outq' = Append(outq, current_scale)
    /\ sent' = Append(sent, current_scale)
    /\ Advance
    /\ UNCHANGED <<ovars, should_render, scene, window, rows_done, back_fb, filter, offset, cvars,
                   front_fb, readers, inq, avars, log>>

\* less than 8 ms since the last publication: nothing is published
Throttled ==
    /\ rpc = "publish"
    /\ ~due
    /\ Advance
    /\ UNCHANGED <<ovars, should_render, scene, window, rows_done, back_fb, filter, offset, cvars,
                   svars, avars, hvars>>

RenderNext ==
    \/ RecvMsg
    \/ TryMsg
    \/ LoopEnd
    \/ PassBegin
    \/ SerialPass
    \/ \E y \in 0 .. (frame.height - 1) : Scanline(y)
    \/ PassEnd
    \/ SwapBuffers
    \/ SendUpdate
    \/ Throttled

(***************************************************************************)
(* Display thread (App::run).                                               *)
(***************************************************************************)
AppSend(m) == inq' = Append(inq, m)

\* self.tx_in.send(RenderInMsg::Restart), twice before the event loop starts
AppRestart1 ==
    /\ app_pc = "start"
    /\ AppSend(MsgRestart)
    /\ app_pc' = "restart2"
    /\ UNCHANGED <<mvars, rvars, cvars, front_fb, readers, outq, app_scene, nsent, budget, hvars>>

AppRestart2 ==
    /\ app_pc = "restart2"
    /\ AppSend(MsgRestart)
    /\ app_pc' = "texture"
    /\ UNCHANGED <<mvars, rvars, cvars, front_fb, readers, outq, app_scene, nsent, budget, hvars>>

\* the texture is created from the front buffer under the read lock
AppTexture ==
    /\ app_pc = "texture"
    /\ app_pc' = "events"
    /\ UNCHANGED <<mvars, rvars, cvars, svars, app_scene, nsent, budget, hvars>>

\* Event::RedrawEventsCleared with an Update pending: take the read lock
AppUpdateBegin ==
    /\ app_pc = "events"
    /\ outq # <<>>
    /\ outq' = Tail(outq)
    /\ readers' = readers \cup {"display"}
    /\ app_pc' = "reading"
    /\ UNCHANGED <<mvars, rvars, cvars, front_fb, inq, app_scene, nsent, budget, hvars>>

\* texture.update(...) done: the read lock is dropped
AppUpdateEnd ==
    /\ app_pc = "reading"
    /\ readers' = readers \ {"display"}
    /\ app_pc' = "events"
    /\ UNCHANGED <<mvars, rvars, cvars, front_fb, inq, outq, app_scene, nsent, budget, hvars>>

\* camera keys or a cursor drag with a scene loaded: SceneChange(scene.clone())
AppCameraMove ==
    /\ app_pc = "events"
    /\ app_scene # NoScene
    /\ nsent < budget
    /\ AppSend(MsgSceneChange(app_scene))
    /\ nsent' = nsent + 1
    /\ UNCHANGED <<mvars, rvars, cvars, front_fb, readers, outq, app_pc, app_scene, budget, hvars>>

\* WindowEvent::Resized(size) with size.width != 0 && size.height != 0
AppResized(size) ==
    /\ app_pc = "events"
    /\ nsent < budget
    /\ AppSend(MsgResize(size[1], size[2]))
    /\ nsent' = nsent + 1
    /\ UNCHANGED <<mvars, rvars, cvars, front_fb, readers, outq, app_pc, app_scene, budget, hvars>>

\* WindowEvent::DroppedFile(path), load_path returns Ok(s)
AppDroppedFileOk(s) ==
    /\ app_pc = "events"
    /\ nsent < budget
    /\ AppSend(MsgSceneChange(s))
    /\ app_scene' = s
    /\ nsent' = nsent + 1
    /\ UNCHANGED <<mvars, rvars, cvars, front_fb, readers, outq, app_pc, budget, hvars>>

\* WindowEvent::CloseRequested: send Exit, then join the render thread
AppCloseRequested ==
    /\ app_pc = "events"
    /\ AppSend(MsgExit)
    /\ app_pc' = "joining"
    /\ UNCHANGED <<mvars, rvars, cvars, front_fb, readers, outq, app_scene, nsent, budget, hvars>>

\* self.render_thread.take().unwrap().join() returns
AppJoined ==
    /\ app_pc = "joining"
    /\ rpc = "exit"
    /\ app_pc' = "done"
    /\ UNCHANGED <<mvars, rvars, cvars, svars, app_scene, nsent, budget, hvars>>

AppNext ==
    \/ AppRestart1
    \/ AppRestart2
    \/ AppTexture
    \/ AppUpdateBegin
    \/ AppUpdateEnd
    \/ AppCameraMove
    \/ \E size \in Sizes : AppResized(size)
    \/ \E s \in Scenes : AppDroppedFileOk(s)
    \/ AppCloseRequested
    \/ AppJoined

Next == RenderNext \/ AppNext

Spec == Init /\ [][Next]_vars

TypeOK ==
    /\ rpc \in {"recv", "loop", "scan", "publish", "send", "exit",
               "cli_loop", "cli_scan", "cli_done", "filter",
               "shape", "shape_done", "color_for_ray", "march", "Object", "Background",
               "None", "return", "from_vec", "lookup", "lut_done", "panic"}
    /\ current_scale \in Scalings
    /\ sample \in Nat
    /\ samples \in 0 .. Samples
    /\ run \in 0 .. 2
    /\ due \in BOOLEAN
    /\ published \in Seq(0 .. Samples)
    /\ total_steps \in 0 .. (2 ^ CounterWidth - 1)
    /\ max_steps_per_sample \in 0 .. (2 ^ CounterWidth - 1)

(***************************************************************************)
(* Properties of the interactive renderer.                                  *)
(***************************************************************************)
\* the render thread takes a message off the inbound queue in this step
Dequeue == inq # <<>> /\ inq' = Tail(inq)
\* probes inside the frame being rendered
FrameProbes == {p \in ProbeIdx : p < frame.width * frame.height}
Zeroed(fb) == \A p \in DOMAIN fb.buffer : fb.buffer[p] = PixelBlack
HasDims(fb, w, h) == fb.width = w /\ fb.height = h /\ DOMAIN fb.buffer = ProbesBelow(w * h)

Ladder(k) == IF k = 1 THEN X8 ELSE IF k = 2 THEN X4 ELSE IF k = 3 THEN X2 ELSE X1

C3_Cancel ==
    [][/\ (rpc = "loop" /\ inq # <<>>) => rpc' # "scan"
       /\ Dequeue => rpc \in {"loop", "recv"}
       /\ Dequeue => (sample' = 0 \/ rpc' = "exit")]_vars

\* a message has been handled at the head of the loop after one pass of a
\* batch of more than one
C3_Witness ==
    /\ scaling = X8
    /\ rpc = "loop"
    /\ sample = 0
    /\ Len(log[0]) > 0
    /\ Len(log[0]) < Samples

RECURSIVE SumColor(_, _)
SumColor(l, c) == IF l = <<>> THEN 0 ELSE Head(l).color[c] + SumColor(Tail(l), c)
\* the arithmetic mean of the colours of a non-empty sequence of RayResults
MeanPixel(l) ==
    PixelNew(Frac[SumColor(l, 1), Len(l)], Frac[SumColor(l, 2), Len(l)],
             Frac[SumColor(l, 3), Len(l)], F1)

LiveConfigs == {<<X8, "Samples", 1, MaxMsgs>>, <<X4, "Samples", 2, MaxMsgsFine>>}
InitLive == InitFor(LiveConfigs)
SpecLive == InitLive /\ [][Next]_vars /\ WF_vars(RenderNext) /\ WF_vars(AppJoined)

ExitQueued == \E k \in 1 .. Len(inq) : inq[k].type = "Exit"

\* C5: once an Exit message is in the inbound queue the render thread
\* eventually returns, whatever is queued before it and whether or not a batch
\* is in progress, and the display thread's join then completes.
C5_ExitTerminates ==
    /\ ExitQueued ~> (rpc = "exit")
    /\ (app_pc = "joining") ~> (app_pc = "done")
\* Exit was sent behind another message while a pass was being computed, and
\* the render thread has returned
C5_Witness ==
    /\ rpc = "exit"
    /\ app_pc = "done"
    /\ sample > 0
    /\ rows_done # {}

(***************************************************************************)
(* Command-line renderer (CliRenderer::render, called from main).  The      *)
(* frame buffer fb is held in back_fb.  The program is run twice on the     *)
(* same arguments; the image of the first run is kept in front_fb.          *)
(***************************************************************************)
\* frame sizes given on the command line (stand-ins for real sizes)
CliSizes == {<<2, 2>>}
\* scenes given on the command line
CliScenes == Scenes \cup VolumetricScenes
\* regions of a w x h frame
CliRegions(w, h) ==
    {RegionWhole} \cup
    {RegionWindow(x0, x1, y0, y1) :
        x0 \in 0 .. (w - 1), x1 \in 1 .. w, y0 \in 0 .. (h - 1), y1 \in 1 .. h}

\* f32 results that are no number
NaN == <<0, 0>>
Inf == <<1, 0>>
NegInf == <<-1, 0>>
\* f32 division, of values that are not negative
FDiv(p, q) ==
    IF p = NaN \/ q = NaN THEN NaN
    ELSE IF q[1] = 0 THEN (IF p[1] = 0 THEN NaN ELSE Inf)
    ELSE Frac[p[1] * q[2], p[2] * q[1]]
\* 1.0 - value, for value in [0, 1], NaN or infinite
OneMinus(v) ==
    IF v = NaN THEN NaN
    ELSE IF v = Inf THEN NegInf
    ELSE Frac[v[2] - v[1], v[2]]
\* sample_count / 256.0 / self.samples as f32
StepsScale == 256
SamplesValue(r, n) == FDiv(FDiv(r, Frac[StepsScale, 1]), <<n, 1>>)

InitCli ==
    /\ rpc = "cli_loop"
    /\ run = 1
    /\ \E size \in CliSizes :
        /\ window = size
        /\ frame = [width |-> size[1], height |-> size[2]]
        /\ back_fb = FrameBufferNew(size[1], size[2])
        /\ front_fb = FrameBufferNew(size[1], size[2])
        /\ region \in {g \in CliRegions(size[1], size[2]) :
                          g.whole \/ (g.x_min < g.x_max /\ g.y_min < g.y_max)}
    /\ scene \in CliScenes
    /\ mode \in Modes
    /\ threads \in {1, 2}
    /\ samples \in 0 .. Samples
    /\ filter = BlackmanHarrisFilterNew
    /\ offset = Center
    /\ sample = 0
    /\ rows_done = {}
    /\ log = EmptyLog
    /\ should_render = FALSE
    /\ current_scale = X1
    /\ scaling = X1
    /\ readers = {}
    /\ inq = <<>>
    /\ outq = <<>>
    /\ app_pc = "cli"
    /\ app_scene = NoScene
    /\ nsent = 0
    /\ budget = 0
    /\ sent = <<>>
    /\ MarchIdle

\* FrameBufferIterator::from_framebuffer: first column, number of columns and
\* rows of the slices it yields
SliceStart == IF region.whole THEN 0 ELSE region.x_min
SliceLen == IF region.whole THEN back_fb.width ELSE region.x_max - region.x_min
CliRows ==
    IF region.whole THEN 0 .. (back_fb.height - 1) ELSE region.y_min .. (region.y_max - 1)
\* pixels of the slice of row y
SliceProbes(y) ==
    {p \in DOMAIN back_fb.buffer :
        /\ y * back_fb.width + SliceStart <= p
        /\ p < y * back_fb.width + SliceStart + SliceLen}
\* pixels of the region
RegionProbes == UNION {SliceProbes(y) : y \in CliRows}

\* for i in 0..self.samples { let offset = self.filter.next().unwrap(); ...
CliPassBegin ==
    /\ rpc = "cli_loop"
    /\ sample < samples
    /\ offset' = FilterNextOffset(filter)
    /\ filter' = FilterNextState(filter)
    /\ rows_done' = {}
    /\ rpc' = "cli_scan"
    /\ UNCHANGED <<mvars, should_render, scene, window, frame, current_scale, sample, back_fb,
                   cvars, svars, avars, hvars>>

\* (mutant) the scanline blends with the pixel one row up, which another
\* scanline of the pass writes
CliScanlineShared(y) ==
    /\ rpc = "cli_scan"
    /\ y \in CliRows \ rows_done
    /\ threads = 1 => \A z \in CliRows \ rows_done : y <= z
    /\ \E r \in RandDraws(scene, SliceProbes(y)) :
        /\ back_fb' = [back_fb EXCEPT !.buffer =
                          [p \in DOMAIN back_fb.buffer |->
                              IF p \in SliceProbes(y)
                              THEN LET q == IF p >= back_fb.width THEN p - back_fb.width ELSE p
                                   IN BlendPixel(back_fb.buffer[q], back_fb.buffer[q],
                                                 ColorForRay(scene, p, offset, r), sample)
                              ELSE back_fb.buffer[p]]]
        /\ log' = [p \in ProbeIdx |->
                      IF p \in SliceProbes(y)
                      THEN Append(log[p], ColorForRay(scene, p, offset, r))
                      ELSE log[p]]
        /\ CountSteps(SliceProbes(y), [p \in ProbeIdx |-> ColorForRay(scene, p, offset, r).steps])
    /\ rows_done' = rows_done \cup {y}
    /\ UNCHANGED <<uvars, rpc, should_render, scene, window, frame, current_scale, sample, filter,
                   offset, cvars, svars, avars, sent>>

\* self.scanline(scene, max_step, slice, i, offset): the pixel is blended in place
CliScanline(y) ==
    /\ rpc = "cli_scan"
    /\ y \in CliRows \ rows_done
    /\ threads = 1 => \A z \in CliRows \ rows_done : y <= z
    /\ \E r \in RandDraws(scene, SliceProbes(y)) :
        /\ back_fb' = [back_fb EXCEPT !.buffer =
                          [p \in DOMAIN back_fb.buffer |->
                              IF p \in SliceProbes(y)
                              THEN BlendPixel(back_fb.buffer[p], back_fb.buffer[p],
                                              ColorForRay(scene, p, offset, r), sample)
                              ELSE back_fb.buffer[p]]]
        /\ log' = [p \in ProbeIdx |->
                      IF p \in SliceProbes(y)
                      THEN Append(log[p], ColorForRay(scene, p, offset, r))
                      ELSE log[p]]
        /\ CountSteps(SliceProbes(y), [p \in ProbeIdx |-> ColorForRay(scene, p, offset, r).steps])
    /\ rows_done' = rows_done \cup {y}
    /\ UNCHANGED <<uvars, rpc, should_render, scene, window, frame, current_scale, sample, filter,
                   offset, cvars, svars, avars, sent>>

\* all slices of the pass done: next i
CliPassEnd ==
    /\ rpc = "cli_scan"
    /\ rows_done = CliRows
    /\ sample' = sample + 1
    /\ rpc' = "cli_loop"
    /\ UNCHANGED <<mvars, should_render, scene, window, frame, current_scale, rows_done, back_fb,
                   filter, offset, cvars, svars, avars, hvars>>

\* *pixel = Pixel::new(value, 1.0 - value, 0.0, 1.0)
Renormalize(px, n) ==
    PixelNew(SamplesValue(px.r, n), OneMinus(SamplesValue(px.r, n)), F0, F1)

\* after the loop: if let RenderMode::Samples = self.ray_marcher.mode, every
\* pixel of the frame is renormalised
CliFinish ==
    /\ rpc = "cli_loop"
    /\ sample >= samples
    /\ back_fb' = IF mode = "Samples"
                  THEN [back_fb EXCEPT !.buffer =
                           [p \in DOMAIN back_fb.buffer |-> Renormalize(back_fb.buffer[p], samples)]]
                  ELSE back_fb
    /\ rpc' = "cli_done"
    /\ UNCHANGED <<mvars, should_render, scene, window, frame, current_scale, sample, rows_done,
                   filter, offset, cvars, svars, avars, hvars>>

\* the program is started again with the same arguments: a new frame buffer,
\* a new renderer with a new filter
CliRenderAgain ==
    /\ rpc = "cli_done"
    /\ run = 1
    /\ run' = 2
    /\ front_fb' = back_fb
    /\ back_fb' = FrameBufferNew(frame.width, frame.height)
    /\ filter' = BlackmanHarrisFilterNew
    /\ offset' = Center
    /\ sample' = 0
    /\ rows_done' = {}
    /\ log' = EmptyLog
    /\ rpc' = "cli_loop"
    /\ total_steps' = 0
    /\ max_steps_per_sample' = 0
    /\ UNCHANGED <<uvars, should_render, scene, window, frame, current_scale, scaling, mode, threads,
                   samples, region, readers, inq, outq, avars, sent>>

NextCli ==
    \/ CliPassBegin
    \/ \E y \in 0 .. (frame.height - 1) : CliScanline(y)
    \/ CliPassEnd
    \/ CliFinish
    \/ CliRenderAgain

SpecCli == InitCli /\ [][NextCli]_vars

(***************************************************************************)
(* Properties of the command-line renderer.                                 *)
(***************************************************************************)
\* C7: when the command-line renderer has finished with n >= 1 samples in a
\* mode other than Samples, every pixel of the region is the arithmetic mean
\* of the n colours computed for it; the same holds of the first i colours
\* after each pass i.
C7_CliRunningMean ==
    (rpc \in {"cli_loop", "cli_done"} /\ mode # "Samples" /\ sample >= 1) =>
        \A p \in RegionProbes :
            /\ Len(log[p]) = sample
            /\ rpc = "cli_done" => sample = samples
            /\ back_fb.buffer[p] = MeanPixel(log[p])
\* a render of a window region on two threads has finished after several
\* samples whose colours differ
C7_Witness ==
    /\ rpc = "cli_done"
    /\ mode = "Shaded"
    /\ threads = 2
    /\ ~region.whole
    /\ sample = samples
    /\ samples >= 2
    /\ \E p \in RegionProbes : log[p][1] # log[p][2] /\ back_fb.buffer[p] = MeanPixel(log[p])

\* C8: two renders of the same scene with the same width, height, samples,
\* mode and filter seed on one thread end with identical frame buffers.
C8_Deterministic ==
    (rpc = "cli_done" /\ run = 2 /\ threads = 1) => back_fb = front_fb

\* C10: with samples = 0 the frame buffer after render is the zero image it
\* was created as, in every mode.
C10_ZeroSamples ==
    (rpc = "cli_done" /\ samples = 0) => /\ Zeroed(back_fb)
                                        /\ HasDims(back_fb, frame.width, frame.height)

(***************************************************************************)
(* The pixel filters on their own: next() and reset() called in any order.  *)
(***************************************************************************)
\* calls of next() followed
MaxDraws == 10

InitFilter ==
    /\ rpc = "filter"
    /\ filter \in {BoxFilterNew, BlackmanHarrisFilterNew, PixelFilterNew}
    /\ offset = Center
    /\ sample = 0
    /\ run = 0
    /\ scene = NoScene
    /\ window = InitWindow
    /\ frame = [width |-> InitWindow[1], height |-> InitWindow[2]]
    /\ back_fb = FrameBufferNew(InitWindow[1], InitWindow[2])
    /\ front_fb = FrameBufferNew(InitWindow[1], InitWindow[2])
    /\ region = RegionWhole
    /\ mode = "Shaded"
    /\ threads = 1
    /\ samples = Samples
    /\ rows_done = {}
    /\ log = EmptyLog
    /\ should_render = FALSE
    /\ current_scale = X1
    /\ scaling = X1
    /\ readers = {}
    /\ inq = <<>>
    /\ outq = <<>>
    /\ app_pc = "filter"
    /\ app_scene = NoScene
    /\ nsent = 0
    /\ budget = 0
    /\ sent = <<>>
    /\ MarchIdle

\* filter.next(): sample counts the calls made since construction
FilterNext ==
    /\ rpc = "filter"
    /\ sample < MaxDraws
    /\ offset' = FilterNextOffset(filter)
    /\ filter' = FilterNextState(filter)
    /\ sample' = sample + 1
    /\ UNCHANGED <<mvars, rpc, should_render, scene, window, frame, current_scale, rows_done,
                   back_fb, cvars, svars, avars, hvars>>

\* filter.reset() (a method of the PixelFilter trait; the first renderer's
\* PixelFilter struct has none)
FilterResetCall ==
    /\ rpc = "filter"
    /\ filter.kind # "PixelFilter"
    /\ filter' = FilterReset(filter)
    /\ UNCHANGED <<mvars, rpc, should_render, scene, window, frame, current_scale, sample,
                   rows_done, back_fb, offset, cvars, svars, avars, hvars>>

NextFilter == FilterNext \/ FilterResetCall

SpecFilter == InitFilter /\ [][NextFilter]_vars

\* C9: for BoxFilter and BlackmanHarrisFilter the first offset returned after
\* construction is (0.5, 0.5) and every later offset is jitter.
C9_FirstOffsetCenter ==
    (rpc = "filter" /\ filter.kind \in {"BoxFilter", "BlackmanHarrisFilter"}) =>
        /\ sample = 1 => offset = Center
        /\ sample > 1 => offset # Center

(***************************************************************************)
(* Geometry.  Points and directions are integer vectors <<x, y, z>>; one    *)
(* unit of length is 0.002, the smallest step the marcher takes, so that    *)
(* the step sizes written in the code are whole numbers of units.  Square   *)
(* roots are rounded up to the next whole unit, which keeps the sign of     *)
(* every distance exact.                                                    *)
(***************************************************************************)
Abs(x) == IF x < 0 THEN -x ELSE x
Max2(a, b) == IF a >= b THEN a ELSE b
Min2(a, b) == IF a <= b THEN a ELSE b
VSub(p, q) == <<p[1] - q[1], p[2] - q[2], p[3] - q[3]>>
VAdd(p, q) == <<p[1] + q[1], p[2] + q[2], p[3] + q[3]>>
VScale(p, k) == <<p[1] * k, p[2] * k, p[3] * k>>
Dot(p, q) == p[1] * q[1] + p[2] * q[2] + p[3] * q[3]

\* the least r in lo .. hi with r * r >= n
SqrtSearch[n \in Nat, lo \in Nat, hi \in Nat] ==
    IF lo >= hi THEN lo
    ELSE IF ((lo + hi) \div 2) * ((lo + hi) \div 2) >= n
         THEN SqrtSearch[n, lo, (lo + hi) \div 2]
         ELSE SqrtSearch[n, ((lo + hi) \div 2) + 1, hi]
\* sqrt(), rounded up; no length in the model exceeds SqrtMax
SqrtMax == 2000
CeilSqrt(n) == SqrtSearch[n, 0, SqrtMax]

\* AABB
AABBOf(x0, x1, y0, y1, z0, z1) ==
    [x_min |-> x0, x_max |-> x1, y_min |-> y0, y_max |-> y1, z_min |-> z0, z_max |-> z1]
AABBMin(bb) == <<bb.x_min, bb.y_min, bb.z_min>>
AABBMax(bb) == <<bb.x_max, bb.y_max, bb.z_max>>

\* the shapes: records [kind, center, ...]; sizes of a Cube are even so that
\* scales / 2 is a whole number of units
SphereOf(c, r) == [kind |-> "Sphere", center |-> c, radius |-> r]
CubeOf(c, s) == [kind |-> "Cube", center |-> c, scales |-> s]
CylinderOf(c, r, h) == [kind |-> "Cylinder", center |-> c, radius |-> r, height |-> h]
CompositeOf(op, a, b) == [kind |-> "Composite", op |-> op, a |-> a, b |-> b]
BooleanOps == {"Difference", "Intersection", "Union"}

\* Sphere::dist_fn
SphereDist(s, p) == CeilSqrt(Dot(VSub(p, s.center), VSub(p, s.center))) - s.radius
\* Cube::dist_fn
CubeDist(s, p) ==
    LET dist_axis(a) == Abs(s.center[a] - p[a]) - (s.scales[a] \div 2)
    IN Max2(dist_axis(1), Max2(dist_axis(2), dist_axis(3)))
\* Cylinder::dist_fn: the xz distance is taken between the point relative to
\* the centre and the centre
CylinderDist(s, p) ==
    LET relative_point == VSub(p, s.center)
        distance2 == (relative_point[1] - s.center[1]) * (relative_point[1] - s.center[1])
                     + (relative_point[3] - s.center[3]) * (relative_point[3] - s.center[3])
    IN IF Abs(relative_point[2]) >= s.height
       THEN IF distance2 <= s.radius * s.radius
            THEN Abs(relative_point[2]) - s.height
            ELSE LET dist_to_center == CeilSqrt(distance2) - s.radius
                     dist_to_side == Abs(relative_point[2]) - s.height
                 IN CeilSqrt(dist_to_center * dist_to_center + dist_to_side * dist_to_side)
       ELSE distance2 - s.radius * s.radius

\* Sphere::compute_bb, Cube::compute_bb, Cylinder::compute_bb
SphereBB(s) ==
    AABBOf(s.center[1] - s.radius, s.center[1] + s.radius,
           s.center[2] - s.radius, s.center[2] + s.radius,
           s.center[3] - s.radius, s.center[3] + s.radius)
CubeBB(s) ==
    AABBOf(s.center[1] - (s.scales[1] \div 2), s.center[1] + (s.scales[1] \div 2),
           s.center[2] - (s.scales[2] \div 2), s.center[2] + (s.scales[2] \div 2),
           s.center[3] - (s.scales[3] \div 2), s.center[3] + (s.scales[3] \div 2))
CylinderBB(s) ==
    AABBOf(s.center[1] - s.radius, s.center[1] + s.radius,
           s.center[2] - s.height, s.center[2] + s.height,
           s.center[3] - s.radius, s.center[3] + s.radius)

RECURSIVE DistFn(_, _)
\* Shape::dist_fn
DistFn(s, p) ==
    CASE s.kind = "Sphere" -> SphereDist(s, p)
      [] s.kind = "Cube" -> CubeDist(s, p)
      [] s.kind = "Cylinder" -> CylinderDist(s, p)
      [] s.kind = "Composite" ->
            LET a == DistFn(s.a, p)
                b == DistFn(s.b, p)
            IN CASE s.op = "Difference" -> Max2(a, -b)
                 [] s.op = "Intersection" -> Max2(a, b)
                 [] s.op = "Union" -> Min2(a, b)

RECURSIVE BoundingBox(_)
\* Shape::bounding_box (Composite::compute_bb for a Composite)
BoundingBox(s) ==
    CASE s.kind = "Sphere" -> SphereBB(s)
      [] s.kind = "Cube" -> CubeBB(s)
      [] s.kind = "Cylinder" -> CylinderBB(s)
      [] s.kind = "Composite" ->
            LET abb == BoundingBox(s.a)
                bbb == BoundingBox(s.b)
            IN IF s.op = "Difference" THEN abb
               ELSE AABBOf(Min2(abb.x_min, bbb.x_min), Max2(abb.x_max, bbb.x_max),
                           Min2(abb.y_min, bbb.y_min), Max2(abb.y_max, bbb.y_max),
                           Min2(abb.z_min, bbb.z_min), Max2(abb.z_max, bbb.z_max))

\* p lies outside the box
OutsideBB(bb, p) ==
    \/ p[1] < bb.x_min \/ p[1] > bb.x_max
    \/ p[2] < bb.y_min \/ p[2] > bb.y_max
    \/ p[3] < bb.z_min \/ p[3] > bb.z_max

\* every variable of the renderers and of the display thread at rest, for the
\* specifications that exercise one component on its own; pc names the component
RendererRest(pc) ==
    /\ rpc = pc
    /\ should_render = FALSE
    /\ window = InitWindow
    /\ frame = [width |-> InitWindow[1], height |-> InitWindow[2]]
    /\ current_scale = X1
    /\ sample = 0
    /\ rows_done = {}
    /\ back_fb = FrameBufferNew(InitWindow[1], InitWindow[2])
    /\ filter = BlackmanHarrisFilterNew
    /\ offset = Center
    /\ scaling = X1
    /\ threads = 1
    /\ samples = Samples
    /\ region = RegionWhole
    /\ run = 0
    /\ front_fb = FrameBufferNew(InitWindow[1], InitWindow[2])
    /\ readers = {}
    /\ inq = <<>>
    /\ outq = <<>>
    /\ app_pc = pc
    /\ app_scene = NoScene
    /\ nsent = 0
    /\ budget = 0
    /\ log = EmptyLog
    /\ sent = <<>>
RendererIdle(pc) == RendererRest(pc) /\ scene = NoScene /\ mode = "Shaded"

(***************************************************************************)
(* The shapes on their own: dist_fn asked of a shape at a point.            *)
(***************************************************************************)
\* radii and heights range over 1 .. MaxSize, the sides of a Cube over twice that
MaxSize == 2
\* the coordinates of the points asked about reach MaxCoord beyond the centres
MaxCoord == 3

Centers == {<<0, 0, 0>>, <<MaxSize, 0, 0>>}
Spheres == {SphereOf(c, r) : c \in Centers, r \in 1 .. MaxSize}
Cubes == {CubeOf(c, <<2 * a, 2 * b, 2>>) : c \in Centers, a \in 1 .. MaxSize, b \in 1 .. MaxSize}
Cylinders == {CylinderOf(c, r, h) : c \in Centers, r \in 1 .. MaxSize, h \in 1 .. MaxSize}
\* the operands of the Composites explored
Operands ==
    {SphereOf(<<0, 0, 0>>, MaxSize), SphereOf(<<MaxSize, 0, 0>>, 1),
     CubeOf(<<MaxSize, 0, 0>>, <<2, 2, 2>>), CylinderOf(<<0, 0, 0>>, 1, 1)}
Composites == {CompositeOf(op, a, b) : op \in BooleanOps, a \in Operands, b \in Operands}
Shapes == Spheres \cup Cubes \cup Cylinders \cup Composites
Points ==
    {<<x, y, z>> : x \in (0 - MaxCoord) .. (MaxSize + MaxCoord),
                   y \in (0 - MaxCoord) .. MaxCoord, z \in {0 - MaxCoord, 0, 1, MaxCoord}}

InitShape ==
    /\ RendererIdle("shape")
    /\ MarcherAtRest
    /\ LutAtRest
    /\ LoaderAtRest
    /\ shape \in Shapes
    /\ point \in Points
    /\ dist = 0

\* shape.dist_fn(point)
DistCall ==
    /\ rpc = "shape"
    /\ dist' = DistFn(shape, point)
    /\ rpc' = "shape_done"
    /\ UNCHANGED <<should_render, scene, window, frame, current_scale, sample, rows_done,
                   back_fb, filter, offset, cvars, svars, avars, hvars,
                   ray, march_i, depth, max_steps, max_depth, max_step, pending, result,
                   marcher, marches, iteration, path, shape, point, lvars, dropped, tvars>>

NextShape == DistCall

SpecShape == InitShape /\ [][NextShape]_vars

\* C13: for every shape and every point outside the shape's bounding box the
\* distance returned by dist_fn is positive.
C13_OutsideBBPositive ==
    (rpc = "shape_done" /\ OutsideBB(BoundingBox(shape), point)) => dist > 0

(***************************************************************************)
(* The ray marcher: RayMarcher::color_for_ray and march_to_object.          *)
(* Rays travel along the axis directions of the xy plane; colours are       *)
(* integer vectors.                                                         *)
(***************************************************************************)
\* the step sizes and thresholds of march_to_object, in units of 0.002
DistortionMinStep == 50
VolumeStep == 5
VolumeMinStep == 1
\* BasicSolidShader::material_at advances the continuation ray by 0.01
ShaderAdvance == 5
\* f64::MAX; f64::MIN is its negative
F64Max == 1000000
\* the strength beyond which a ray is swallowed
StrengthLimit == 9
\* lengths per unit of world length: 1 / 0.002
UnitsPerLength == 500

Dirs == {<<1, 0, 0>>, <<-1, 0, 0>>, <<0, 1, 0>>, <<0, -1, 0>>}
Black == <<0, 0, 0>>
ColorAdd(p, q) == <<p[1] + q[1], p[2] + q[2], p[3] + q[3]>>
\* mul_element_wise
MulElementWise(p, q) == <<p[1] * q[1], p[2] * q[2], p[3] * q[3]>>

\* Ray::advance
RayAdvance(r, d) ==
    [r EXCEPT !.location = VAdd(r.location, VScale(r.direction, d)),
              !.steps_taken = r.steps_taken + 1]

\* ---- AABB::ray_intersect, with the values 1.0 / 0.0 produces ----
TPosInf == 2 * F64Max
TNegInf == 0 - 2 * F64Max
TNaN == 3 * F64Max
\* (v) * inv_dir on one axis, inv_dir = 1 / direction
TimesInvDir(v, d) ==
    IF d # 0 THEN v * d
    ELSE IF v > 0 THEN TPosInf ELSE IF v < 0 THEN TNegInf ELSE TNaN
\* comparisons of f64: false when an operand is NaN
FGt(x, y) == x # TNaN /\ y # TNaN /\ x > y
FLt(x, y) == x # TNaN /\ y # TNaN /\ x < y
FLe(x, y) == x # TNaN /\ y # TNaN /\ x <= y
RECURSIVE SlabLoop(_, _, _, _, _)
SlabLoop(bb, r, a, tmin, tmax) ==
    IF a > 3 THEN TRUE
    ELSE LET d == r.direction[a]
             u0 == TimesInvDir(AABBMin(bb)[a] - r.location[a], d)
             u1 == TimesInvDir(AABBMax(bb)[a] - r.location[a], d)
             t0 == IF d < 0 THEN u1 ELSE u0
             t1 == IF d < 0 THEN u0 ELSE u1
             tmin2 == IF FGt(t0, tmin) THEN t0 ELSE tmin
             tmax2 == IF FLt(t1, tmax) THEN t1 ELSE tmax
         IN IF FLe(tmax2, tmin2) THEN FALSE ELSE SlabLoop(bb, r, a + 1, tmin2, tmax2)
RayIntersect(bb, r) == SlabLoop(bb, r, 1, 0 - F64Max, F64Max)

\* Shape::can_ray_hit (the bounding box), overridden by Sphere::can_ray_hit
CanRayHit(s, r) ==
    IF s.kind = "Sphere"
    THEN LET l == VSub(s.center, r.location)
             tca == Dot(l, r.direction)
             d2 == Dot(l, l) - tca * tca
         IN ~(d2 > s.radius * s.radius)
    ELSE RayIntersect(BoundingBox(s), r)

\* Shape::normal of a Cube by forward differences of dist_fn, before it is
\* normalised: the sign of each component
CubeNormal(s, p) ==
    LET t(a) == Abs(s.center[a] - p[a]) - (s.scales[a] \div 2)
        top == Max2(t(1), Max2(t(2), t(3)))
        others(a) == {t(b) : b \in {1, 2, 3} \ {a}}
        comp(a) == IF t(a) < top THEN 0
                   ELSE IF p[a] >= s.center[a] THEN 1
                   ELSE IF \A o \in others(a) : o < top THEN -1 ELSE 0
    IN <<comp(1), comp(2), comp(3)>>

\* ---- scenes ----
\* shaders: BasicSolidShader, VolumeEmitterShader, SolidColorVolumeShader
BasicSolidShader(e, a, met) ==
    [kind |-> "BasicSolid", emission |-> e, albedo |-> a, metallic |-> met, density |-> 0]
VolumeEmitterShader(e, d) ==
    [kind |-> "VolumeEmitter", emission |-> e, albedo |-> Black, metallic |-> 0, density |-> d]
SolidColorVolumeShader(a, d) ==
    [kind |-> "SolidColorVolume", emission |-> Black, albedo |-> a, metallic |-> 0, density |-> d]
\* Object::solid, Object::volumetric
ObjectSolid(s, sh) == [shape |-> s, shading |-> "Solid", shader |-> sh]
ObjectVolumetric(s, sh) == [shape |-> s, shading |-> "Volumetric", shader |-> sh]
\* Distortion: strength is the rational num / den
DistortionOf(c, r, num, den) == [shape |-> SphereOf(c, r), strength |-> <<num, den>>]
\* backgrounds: SolidColorBackgroundShader, DebugBackgroundShader
EmissionAt(bg, r) ==
    IF bg.kind = "SolidColor" THEN bg.color
    ELSE <<Max2(r.direction[1], 0), Max2(r.direction[2], 0), Max2(r.direction[3], 0)>>

\* Scene::max_possible_step: the diagonal of the box around the origin and
\* the bounding boxes of the objects; delta_z is taken from min_y
RECURSIVE BoundsLoop(_, _, _)
BoundsLoop(objects, k, acc) ==
    IF k > Len(objects) THEN acc
    ELSE LET bb == BoundingBox(objects[k].shape)
         IN BoundsLoop(objects, k + 1,
                AABBOf(Min2(acc.x_min, bb.x_min), Max2(acc.x_max, bb.x_max),
                       Min2(acc.y_min, bb.y_min), Max2(acc.y_max, bb.y_max),
                       Min2(acc.z_min, bb.z_min), Max2(acc.z_max, bb.z_max)))
MaxPossibleStep(sc, origin) ==
    LET b == BoundsLoop(sc.objects, 1,
                 AABBOf(origin[1], origin[1], origin[2], origin[2], origin[3], origin[3]))
        delta_x == b.x_max - b.x_min
        delta_y == b.y_max - b.y_min
        delta_z == b.z_max - b.y_min
        delta_xy == CeilSqrt(delta_x * delta_x + delta_y * delta_y)
    IN CeilSqrt(delta_xy * delta_xy + delta_z * delta_z)

\* ---- one iteration of the loop of march_to_object ----
\* the loop over scene.distortions: the distance bound and the active distortions
RECURSIVE DistortionLoop(_, _, _, _)
DistortionLoop(sc, r, k, acc) ==
    IF k > Len(sc.distortions) THEN acc
    ELSE LET distortion == sc.distortions[k]
             d == SphereDist(distortion.shape, r.location)
         IN IF ~CanRayHit(distortion.shape, r)
            THEN DistortionLoop(sc, r, k + 1, acc)
            ELSE DistortionLoop(sc, r, k + 1,
                    [dst |-> Min2(acc.dst, Max2(d, DistortionMinStep)),
                     active |-> IF d <= 0 THEN Append(acc.active, k) ELSE acc.active])

\* the skip test of the solid branch
SkipSolid(object, r, active) == ~CanRayHit(object.shape, r) /\ active # <<>>

\* shader.density_at(location) * dst > rand_unit(): draw is the outcome when
\* both are possible for a number drawn from [0, 1)
Scatters(object, dst, draw) ==
    LET x == object.shader.density * dst
    IN IF x <= 0 THEN FALSE ELSE IF x >= UnitsPerLength THEN TRUE ELSE draw

\* the loop over scene.objects; ret is the volumetric object returned from
\* inside the loop (0: none), obj the closest solid so far (0: None)
RECURSIVE ObjectLoop(_, _, _, _, _, _)
ObjectLoop(sc, r, active, draws, k, acc) ==
    IF k > Len(sc.objects) \/ acc.ret # 0 THEN acc
    ELSE LET object == sc.objects[k]
             obj_dist == DistFn(object.shape, r.location)
         IN IF object.shading = "Solid"
            THEN IF SkipSolid(object, r, active)
                 THEN ObjectLoop(sc, r, active, draws, k + 1,
                          [acc EXCEPT !.skipped = acc.skipped \cup {k}])
                 ELSE ObjectLoop(sc, r, active, draws, k + 1,
                          IF obj_dist < acc.dst
                          THEN [acc EXCEPT !.dst = obj_dist, !.obj = k,
                                           !.evaluated = acc.evaluated \cup {k}]
                          ELSE [acc EXCEPT !.evaluated = acc.evaluated \cup {k}])
            ELSE IF obj_dist < 0
                 THEN LET dst2 == Min2(acc.dst, VolumeStep)
                      IN ObjectLoop(sc, r, active, draws, k + 1,
                             [acc EXCEPT !.dst = dst2,
                                         !.ret = IF Scatters(object, dst2, draws[k]) THEN k ELSE 0])
                 ELSE ObjectLoop(sc, r, active, draws, k + 1,
                          IF obj_dist < acc.dst
                          THEN [acc EXCEPT !.dst = Min2(acc.dst, Max2(obj_dist, VolumeMinStep))]
                          ELSE acc)

\* distortion.strength(location) > 9.0: strength / x^2 with x the distance to the centre
TooStrong(distortion, loc) ==
    LET l == VSub(distortion.shape.center, loc)
    IN distortion.strength[1] * UnitsPerLength * UnitsPerLength
           > StrengthLimit * distortion.strength[2] * Dot(l, l)

\* K * w > |l| for the force K = dst * strength toward the centre: the test
\* behind both the reversal of a ray and its turn to another axis
Outweighs(distortion, loc, dst, w) ==
    LET l == VSub(distortion.shape.center, loc)
    IN /\ w > 0
       /\ dst * distortion.strength[1] * UnitsPerLength * w
              > distortion.strength[2] * Dot(l, l) * CeilSqrt(Dot(l, l))

\* the axis direction across dir that points toward the centre (dir if none)
Across(dir, l) ==
    IF dir[1] # 0
    THEN IF l[2] > 0 THEN <<0, 1, 0>> ELSE IF l[2] < 0 THEN <<0, -1, 0>> ELSE dir
    ELSE IF l[1] > 0 THEN <<1, 0, 0>> ELSE IF l[1] < 0 THEN <<-1, 0, 0>> ELSE dir

\* (ray.direction + force).normalize(), kept on the axis direction nearest to it
NewDir(distortion, loc, dir, dst) ==
    LET l == VSub(distortion.shape.center, loc)
        e == Across(dir, l)
    IN IF e # dir /\ Outweighs(distortion, loc, dst, Dot(e, l) - Dot(dir, l)) THEN e ELSE dir

\* (mutant) the loop over active_distortions without the test of the strength
RECURSIVE BendLoopUnlimited(_, _, _, _, _, _)
BendLoopUnlimited(sc, loc, dst, active, k, dir) ==
    IF k > Len(active) THEN [none |-> FALSE, direction |-> dir]
    ELSE LET distortion == sc.distortions[active[k]]
             l == VSub(distortion.shape.center, loc)
         IN IF Outweighs(distortion, loc, dst, 0 - Dot(dir, l))
            THEN [none |-> TRUE, direction |-> dir]
            ELSE BendLoopUnlimited(sc, loc, dst, active, k + 1, NewDir(distortion, loc, dir, dst))

\* (mutant) every distortion of the scene bends the ray, active or not
RECURSIVE BendLoopAll(_, _, _, _, _, _)
BendLoopAll(sc, loc, dst, active, k, dir) ==
    IF k > Len(sc.distortions) THEN [none |-> FALSE, direction |-> dir]
    ELSE LET distortion == sc.distortions[k]
             l == VSub(distortion.shape.center, loc)
         IN IF TooStrong(distortion, loc) THEN [none |-> TRUE, direction |-> dir]
            ELSE IF Outweighs(distortion, loc, dst, 0 - Dot(dir, l))
                 THEN [none |-> TRUE, direction |-> dir]
                 ELSE BendLoopAll(sc, loc, dst, active, k + 1, NewDir(distortion, loc, dir, dst))

\* the loop over active_distortions: the new direction, or none when the ray is lost
RECURSIVE BendLoop(_, _, _, _, _, _)
BendLoop(sc, loc, dst, active, k, dir) ==
    IF k > Len(active) THEN [none |-> FALSE, direction |-> dir]
    ELSE LET distortion == sc.distortions[active[k]]
             l == VSub(distortion.shape.center, loc)
         IN IF TooStrong(distortion, loc) THEN [none |-> TRUE, direction |-> dir]
            ELSE IF Outweighs(distortion, loc, dst, 0 - Dot(dir, l))
                 THEN [none |-> TRUE, direction |-> dir]
                 ELSE BendLoop(sc, loc, dst, active, k + 1, NewDir(distortion, loc, dir, dst))

\* the end of the iteration with the step counter tested one step too late,
\* after the loop over the distortions
\* (ds), over the objects (os) and over the active distortions (bend): what
\* it returns ("Object", "Background", "None") or "continue", and the ray afterwards
LoopEndingLate(r, step_i, ds, os, bend) ==
    LET bent == [r EXCEPT !.direction = bend.direction]
        audit == [active |-> ds.active, evaluated |-> os.evaluated, skipped |-> os.skipped,
                  dst |-> os.dst, before |-> r]
    IN IF os.ret # 0 THEN [kind |-> "Object", obj |-> os.ret, ray |-> r, audit |-> audit]
       ELSE IF os.obj # 0 /\ os.dst < 1
            THEN [kind |-> "Object", obj |-> os.obj, ray |-> r, audit |-> audit]
       ELSE IF bend.none THEN [kind |-> "None", obj |-> 0, ray |-> r, audit |-> audit]
       ELSE IF os.dst > max_step
            THEN [kind |-> "Background", obj |-> 0, ray |-> bent, audit |-> audit]
       ELSE IF step_i > max_steps
            THEN [kind |-> "None", obj |-> 0, ray |-> bent, audit |-> audit]
       ELSE [kind |-> "continue", obj |-> 0, ray |-> RayAdvance(bent, os.dst), audit |-> audit]
\* the end of the iteration for the ray r, after the loop over the distortions
\* (ds), over the objects (os) and over the active distortions (bend): what
\* it returns ("Object", "Background", "None") or "continue", and the ray afterwards
LoopEnding(r, step_i, ds, os, bend) ==
    LET bent == [r EXCEPT !.direction = bend.direction]
        audit == [active |-> ds.active, evaluated |-> os.evaluated, skipped |-> os.skipped,
                  dst |-> os.dst, before |-> r]
    IN IF os.ret # 0 THEN [kind |-> "Object", obj |-> os.ret, ray |-> r, audit |-> audit]
       ELSE IF os.obj # 0 /\ os.dst < 1
            THEN [kind |-> "Object", obj |-> os.obj, ray |-> r, audit |-> audit]
       ELSE IF bend.none THEN [kind |-> "None", obj |-> 0, ray |-> r, audit |-> audit]
       ELSE IF os.dst > max_step
            THEN [kind |-> "Background", obj |-> 0, ray |-> bent, audit |-> audit]
       ELSE IF step_i >= max_steps
            THEN [kind |-> "None", obj |-> 0, ray |-> bent, audit |-> audit]
       ELSE [kind |-> "continue", obj |-> 0, ray |-> RayAdvance(bent, os.dst), audit |-> audit]
\* the outcomes of one iteration for the ray r: one per outcome of the random draws
LoopBody(sc, r, step_i) ==
    {LoopEnding(r, step_i, ds, os, bend) :
        <<ds, os, bend>> \in
            {<<ds, os, BendLoop(sc, r.location, os.dst, ds.active, 1, r.direction)>> :
                <<ds, os>> \in
                    {<<ds, ObjectLoop(sc, r, ds.active, draws, 1,
                              [dst |-> ds.dst, obj |-> 0, ret |-> 0,
                               evaluated |-> {}, skipped |-> {}])>> :
                        ds \in {DistortionLoop(sc, r, 1, [dst |-> F64Max, active |-> <<>>])},
                        draws \in [1 .. Len(sc.objects) -> BOOLEAN]}}}

\* ---- shading ----
MaterialOf(e, a) == [emission |-> e, albedo |-> a]
MaterialBlack == MaterialOf(Black, Black)
\* ray.reflect(normal) for a normal along an axis
Reflect(r, n) ==
    [location |-> r.location,
     direction |-> VSub(r.direction, VScale(n, 2 * Dot(r.direction, n))),
     steps_taken |-> 0]
\* the continuation rays a shader can give at the end of the marched ray r:
\* random directions are any axis direction; a set, empty for Option::None
ContinuationRays(object, r) ==
    CASE object.shader.kind = "BasicSolid" ->
            LET n == CubeNormal(object.shape, r.location)
                diffuse == {[r EXCEPT !.direction = d] : d \in {e \in Dirs : Dot(e, n) >= 0}}
                mirror == IF Dot(n, n) = 1 THEN {Reflect(r, n)}
                          ELSE {[x EXCEPT !.steps_taken = 0] : x \in diffuse}
            IN {RayAdvance(x, ShaderAdvance) :
                    x \in mirror \cup (IF object.shader.metallic < 1 THEN diffuse ELSE {})}
      [] object.shader.kind = "VolumeEmitter" -> {}
      [] object.shader.kind = "SolidColorVolume" -> {[r EXCEPT !.direction = d] : d \in Dirs}
\* object.shade(ray): the material
ShadeMaterial(object) == MaterialOf(object.shader.emission, object.shader.albedo)
\* RayMarcher::get_color: the material by render mode; the normal colour
\* normal * 0.5 + 0.5 is kept in halves
GetColor(object, r, m) ==
    CASE m = "Shaded" -> ShadeMaterial(object)
      [] m = "Normal" ->
            LET n == CubeNormal(object.shape, r.location)
            IN MaterialOf(<<n[1] + 1, n[2] + 1, n[3] + 1>>, Black)
      [] m = "Samples" -> MaterialBlack

\* ---- the scenes marched ----
SolidColorBackground(c) == [kind |-> "SolidColor", color |-> c]
DebugBackground == [kind |-> "Debug"]
SceneOf(objects, distortions, background, camera) ==
    [objects |-> objects, distortions |-> distortions, background |-> background,
     camera |-> camera]
\* nothing at all
EmptyScene == SceneOf(<<>>, <<>>, SolidColorBackground(<<5, 5, 5>>), <<0, 0, 0>>)
\* nothing at all around a camera away from the origin, the background by direction
EmptyFarScene == SceneOf(<<>>, <<>>, DebugBackground, <<0, 10, 40>>)
\* a solid cube ahead of the camera on the x axis
SolidScene ==
    SceneOf(<<ObjectSolid(CubeOf(<<20, 0, 0>>, <<10, 10, 10>>),
                          BasicSolidShader(<<1, 0, 0>>, <<2, 2, 2>>, 0))>>,
            <<>>, DebugBackground, <<0, 0, 0>>)
\* the camera inside a scattering volume
VolumeScene ==
    SceneOf(<<ObjectVolumetric(CubeOf(<<0, 0, 0>>, <<20, 20, 20>>),
                               SolidColorVolumeShader(<<1, 2, 1>>, 1))>>,
            <<>>, SolidColorBackground(<<5, 5, 5>>), <<0, 0, 0>>)
\* the camera between a mirror and a dense emitting volume
EmitterScene ==
    SceneOf(<<ObjectSolid(CubeOf(<<-15, 0, 0>>, <<10, 10, 10>>),
                          BasicSolidShader(<<0, 1, 0>>, <<1, 2, 1>>, 1)),
              ObjectVolumetric(CubeOf(<<15, 0, 0>>, <<20, 20, 20>>),
                               VolumeEmitterShader(<<3, 1, 0>>, 100))>>,
            <<>>, SolidColorBackground(<<5, 5, 5>>), <<0, 0, 0>>)
\* the camera inside a distortion, one solid beside the x axis and one on it
DistortionScene ==
    SceneOf(<<ObjectSolid(CubeOf(<<100, 60, 0>>, <<20, 20, 20>>),
                          BasicSolidShader(<<0, 0, 1>>, <<1, 1, 1>>, 0)),
              ObjectSolid(CubeOf(<<180, 0, 0>>, <<20, 20, 20>>),
                          BasicSolidShader(<<1, 0, 0>>, <<1, 1, 1>>, 0))>>,
            <<DistortionOf(<<0, 0, 0>>, 150, 1, 10)>>,
            DebugBackground, <<100, 0, 0>>)
\* the camera close to the centre of a distortion, a solid off to one side
BendScene ==
    SceneOf(<<ObjectSolid(CubeOf(<<40, -100, 0>>, <<20, 20, 20>>),
                          BasicSolidShader(<<0, 0, 1>>, <<1, 1, 1>>, 0))>>,
            <<DistortionOf(<<0, 0, 0>>, 150, 1, 10)>>,
            DebugBackground, <<40, 40, 0>>)
\* the camera inside a scattering volume, close to the centre of a distortion
HorizonScene ==
    SceneOf(<<ObjectVolumetric(CubeOf(<<0, 0, 0>>, <<20, 20, 20>>),
                               SolidColorVolumeShader(<<1, 2, 1>>, 1))>>,
            <<DistortionOf(<<0, 0, 0>>, 150, 1, 10)>>,
            SolidColorBackground(<<5, 5, 5>>), <<5, 0, 0>>)
\* the camera outside a distortion, a solid beyond it
PassScene ==
    SceneOf(<<ObjectSolid(CubeOf(<<-100, 0, 0>>, <<20, 20, 20>>),
                          BasicSolidShader(<<0, 0, 1>>, <<1, 1, 1>>, 0))>>,
            <<DistortionOf(<<0, 0, 0>>, 50, 1, 2)>>,
            DebugBackground, <<150, 0, 0>>)
MarchScenes ==
    {EmptyScene, EmptyFarScene, SolidScene, VolumeScene, EmitterScene, DistortionScene, BendScene}

\* self.max_steps and self.max_depth range over 1 .. MaxSteps and 0 .. MaxDepth
MaxSteps == 3
MaxDepth == 2

\* Camera::cast_ray
CastRay(sc, d) == [location |-> sc.camera, direction |-> d, steps_taken |-> 0]

\* a primary ray cast from the camera of one of `scenes`
InitMarchIn(marchers, scenes) ==
    /\ RendererRest("color_for_ray")
    /\ ShapeAtRest
    /\ LutAtRest
    /\ LoaderAtRest
    /\ marcher \in marchers
    /\ \E sc \in scenes, d \in Dirs, m \in Modes :
          /\ scene = sc
          /\ mode = m
          /\ ray = CastRay(sc, d)
          /\ max_step = MaxPossibleStep(sc, sc.camera)
    /\ max_steps \in 1 .. MaxSteps
    /\ max_depth \in 0 .. MaxDepth
    /\ march_i = 0
    /\ depth = 0
    /\ pending = <<>>
    /\ result = NoResult
    /\ marches = 0
    /\ iteration = NoIteration
    /\ path = <<>>

InitMarchFor(marchers) == InitMarchIn(marchers, MarchScenes)

InitMarch == InitMarchFor({"RayMarcher"})

\* what no step of the marcher changes
mfixed == <<should_render, scene, window, frame, current_scale, sample, rows_done, back_fb,
            filter, offset, cvars, svars, avars, hvars, max_steps, max_depth, max_step, marcher,
            shape, point, dist, lvars, dropped, tvars>>

\* the depth test taken one level too late
ColorForRayCallLate ==
    /\ rpc = "color_for_ray"
    /\ IF depth > max_depth
       THEN /\ result' = [steps |-> ray.steps_taken, color |-> Black, set |-> TRUE]
            /\ path' = Append(path, [kind |-> "cut", mat |-> MaterialBlack])
            /\ rpc' = "return"
            /\ UNCHANGED <<march_i, marches, iteration>>
       ELSE /\ rpc' = "march"
            /\ march_i' = 0
            /\ marches' = marches + 1
            /\ iteration' = NoIteration
            /\ UNCHANGED <<result, path>>
    /\ UNCHANGED <<mfixed, ray, depth, pending>>

\* a call of color_for_ray begins: the depth test, then march_to_object is entered
ColorForRayCall ==
    /\ rpc = "color_for_ray"
    /\ IF depth >= max_depth
       THEN /\ result' = [steps |-> ray.steps_taken, color |-> Black, set |-> TRUE]
            /\ path' = Append(path, [kind |-> "cut", mat |-> MaterialBlack])
            /\ rpc' = "return"
            /\ UNCHANGED <<march_i, marches, iteration>>
       ELSE /\ rpc' = "march"
            /\ march_i' = 0
            /\ marches' = marches + 1
            /\ iteration' = NoIteration
            /\ UNCHANGED <<result, path>>
    /\ UNCHANGED <<mfixed, ray, depth, pending>>

\* the ray location is within the sphere of some distortion of the scene
InsideSome(sc, loc) ==
    \E k \in 1 .. Len(sc.distortions) : SphereDist(sc.distortions[k].shape, loc) <= 0

\* one iteration of the loop of march_to_object; start and entered record the
\* direction the march began with and whether the ray has been inside a
\* distortion at the head of an iteration of this march
MarchLoop ==
    /\ rpc = "march"
    /\ \E out \in LoopBody(scene, ray, march_i) :
             /\ ray' = out.ray
             /\ iteration' = [n |-> iteration.n + 1, kind |-> out.kind, obj |-> out.obj,
                              audit |-> out.audit,
                              start |-> IF iteration.n = 0 THEN ray.direction
                                        ELSE iteration.start,
                              entered |-> \/ InsideSome(scene, ray.location)
                                          \/ (iteration.n > 0 /\ iteration.entered)]
             /\ IF out.kind = "continue"
                THEN march_i' = march_i + 1 /\ rpc' = "march"
                ELSE march_i' = march_i /\ rpc' = out.kind
    /\ UNCHANGED <<mfixed, depth, pending, result, marches, path>>

\* the Object arm: get_color, then the continuation ray or the emission alone
OnObject ==
    /\ rpc = "Object"
    /\ LET object == scene.objects[iteration.obj]
           mat == GetColor(object, ray, mode)
           rays == ContinuationRays(object, ray)
       IN IF rays = {}
          THEN /\ result' = [steps |-> ray.steps_taken, color |-> mat.emission, set |-> TRUE]
               /\ path' = Append(path, [kind |-> "emission", mat |-> mat])
               /\ rpc' = "return"
               /\ UNCHANGED <<ray, depth, pending>>
          ELSE /\ \E new_ray \in rays : ray' = new_ray
               /\ pending' = Append(pending, mat)
               /\ path' = Append(path, [kind |-> "object", mat |-> mat])
               /\ depth' = depth + 1
               /\ rpc' = "color_for_ray"
               /\ UNCHANGED result
    /\ UNCHANGED <<mfixed, march_i, marches, iteration>>

\* an arm that ends the path with the material mat: RayMarcher returns at
\* once, Renderer goes on with the same ray and albedo 0
EndArm(kind, mat) ==
    /\ path' = Append(path, [kind |-> kind, mat |-> mat])
    /\ IF marcher = "RayMarcher"
       THEN /\ result' = [steps |-> ray.steps_taken, color |-> mat.emission, set |-> TRUE]
            /\ rpc' = "return"
            /\ UNCHANGED <<depth, pending>>
       ELSE /\ pending' = Append(pending, mat)
            /\ depth' = depth + 1
            /\ rpc' = "color_for_ray"
            /\ UNCHANGED result
    /\ UNCHANGED <<mfixed, ray, march_i, marches, iteration>>

\* the Background arm without the emission of the background
OnBackgroundBlack ==
    /\ rpc = "Background"
    /\ EndArm("background", MaterialBlack)

\* the Background arm
OnBackground ==
    /\ rpc = "Background"
    /\ EndArm("background", MaterialOf(EmissionAt(scene.background, ray), Black))

\* the None arm
OnNone ==
    /\ rpc = "None"
    /\ EndArm("none", MaterialBlack)

\* a recursive call has returned color_reflected to its caller
ReturnDropAlbedo ==
    /\ rpc = "return"
    /\ pending # <<>>
    /\ result' = [result EXCEPT !.color = pending[Len(pending)].emission]
    /\ pending' = SubSeq(pending, 1, Len(pending) - 1)
    /\ depth' = depth - 1
    /\ UNCHANGED <<mfixed, ray, march_i, marches, iteration, path, rpc>>
Return ==
    /\ rpc = "return"
    /\ pending # <<>>
    /\ LET mat_res == pending[Len(pending)]
       IN result' = [result EXCEPT
                        !.color = ColorAdd(mat_res.emission,
                                           MulElementWise(mat_res.albedo, result.color))]
    /\ pending' = SubSeq(pending, 1, Len(pending) - 1)
    /\ depth' = depth - 1
    /\ UNCHANGED <<mfixed, ray, march_i, marches, iteration, path, rpc>>

NextMarch ==
    \/ ColorForRayCall
    \/ MarchLoop
    \/ OnObject
    \/ OnBackground
    \/ OnNone
    \/ Return

SpecMarch == InitMarch /\ [][NextMarch]_vars

\* the outermost call has returned
Returned == rpc = "return" /\ pending = <<>>

\* the marcher runs to the end of every call it starts
SpecMarchLive == InitMarch /\ [][NextMarch]_vars /\ WF_vars(NextMarch)

\* the pixel a renderer blends from the result of the outermost call, on a
\* fresh frame buffer, as sample s
PixelOf(s) == BlendPixel(PixelBlack, PixelBlack, result, s)

\* C11: a call with depth >= max_depth returns colour 0 without marching, so a
\* path makes at most max_depth marches and the outermost call returns; with
\* max_depth = 0 the pixel is 0 in Shaded and Normal mode and in Samples mode
\* only the step count is added to it.
C11_DepthCut ==
    /\ [][(rpc = "color_for_ray" /\ depth >= max_depth) =>
             (rpc' = "return" /\ result'.color = Black /\ result'.steps = ray.steps_taken
              /\ marches' = marches /\ ray' = ray)]_vars
    /\ [](marches <= max_depth /\ depth <= max_depth)
    /\ <>Returned
    /\ []((max_depth = 0 /\ Returned) =>
            \A s \in 0 .. (Samples - 1) :
                /\ PixelOf(s).g = F0 /\ PixelOf(s).b = F0
                /\ PixelOf(s).r = IF mode = "Samples" THEN Frac[result.steps, 1] ELSE F0)
\* a path cut at the deepest level allowed, after max_depth marches
C11_Witness ==
    /\ Returned
    /\ max_depth = MaxDepth
    /\ marches = max_depth
    /\ path[Len(path)].kind = "cut"

\* C12: in a scene with no objects and no distortions the march of a primary
\* ray (depth 0 < max_depth) ends in its first iteration with Background, the
\* ray not advanced, and color_for_ray returns background.emission_at(ray)
\* after that single march.
C12_EmptySceneBackground ==
    (scene.objects = <<>> /\ scene.distortions = <<>> /\ max_depth > 0) =>
        /\ march_i = 0
        /\ rpc \notin {"Object", "None"}
        /\ rpc \in {"Background", "return"} =>
              /\ iteration.n = 1
              /\ iteration.kind = "Background"
              /\ ray = CastRay(scene, ray.direction)
        /\ Returned =>
              /\ marches = 1
              /\ depth = 0
              /\ result.set
              /\ result.color = EmissionAt(scene.background, CastRay(scene, ray.direction))
              /\ result.steps = 0
              /\ Len(path) = 1 /\ path[1].kind = "background"
\* the empty scene around the far camera has returned a background colour
\* that depends on the ray
C12_Witness ==
    /\ Returned
    /\ scene = EmptyFarScene
    /\ max_depth > 0
    /\ max_step > 0
    /\ result.color # Black
    /\ iteration.n = 1

\* the solid objects of the scene, by their place in scene.objects
Solids == {k \in 1 .. Len(scene.objects) : scene.objects[k].shading = "Solid"}

\* C18: in an iteration of march_to_object a solid object is skipped only when
\* its shape.can_ray_hit(ray) is false and no distortion is active, and with a
\* distortion active the distance of every solid object is evaluated.
C18_SkipOnlyWithoutDistortion ==
    iteration.n > 0 =>
        /\ \A k \in iteration.audit.skipped :
              /\ ~CanRayHit(scene.objects[k].shape, iteration.audit.before)
              /\ iteration.audit.active = <<>>
        /\ iteration.audit.active # <<>> => Solids \subseteq iteration.audit.evaluated

\* RayMarcher::default: max_steps is 2 << 16
DefaultMaxSteps == 2 * 2 ^ 16

\* C19: march_to_object terminates: the step counter i never exceeds
\* max_steps (2^17 by default), the ray advances exactly when i is
\* incremented, so at most max_steps times in a march, and an iteration that
\* begins with i = max_steps and finds neither an object hit nor Background
\* returns None (before that, None is returned only inside a distortion).
C19_MarchTerminates ==
    /\ DefaultMaxSteps = 2 ^ 17
    /\ [](march_i <= max_steps /\ iteration.n <= max_steps + 1)
    /\ [][rpc = "march" =>
             /\ march_i' \in {march_i, march_i + 1}
             /\ ray'.steps_taken = ray.steps_taken + (march_i' - march_i)
             /\ (march_i' = march_i + 1) <=> (rpc' = "march")
             /\ (march_i' = march_i + 1) => march_i < max_steps
             /\ march_i = max_steps => rpc' \in {"Object", "Background", "None"}
             /\ rpc' = "None" => (march_i = max_steps \/ iteration'.audit.active # <<>>)]_vars
    /\ [](rpc = "march" => <>(rpc \in {"Object", "Background", "None"}))
\* a ray that stayed inside the volume for max_steps advances; the march returned None
C19_Witness ==
    /\ scene = VolumeScene
    /\ rpc = "None"
    /\ max_steps = MaxSteps
    /\ march_i = max_steps
    /\ iteration.n = max_steps + 1
    /\ ray.steps_taken = max_steps

\* the marcher of the library and the one kept in the binary's renderer.rs
InitMarchBoth == InitMarchFor({"RayMarcher", "Renderer"})
SpecMarchBoth == InitMarchBoth /\ [][NextMarch]_vars

\* the colour the calls from level k of the path on compose to: emission +
\* albedo (component-wise) times the colour of the call below for an object
\* with a continuation ray, the emission for the other ends, 0 for None and
\* for a cut at max_depth
RECURSIVE PathColor(_)
PathColor(k) ==
    IF k > Len(path) THEN Black
    ELSE LET entry == path[k]
         IN CASE entry.kind = "object" ->
                    ColorAdd(entry.mat.emission,
                             MulElementWise(entry.mat.albedo, PathColor(k + 1)))
              [] entry.kind \in {"emission", "background"} -> entry.mat.emission
              [] OTHER -> Black

\* C20: for depth < max_depth color_for_ray returns emission + albedo times the
\* colour of the recursive call, with that call's steps, for an object with a
\* continuation ray; the emission alone for an object without one;
\* background.emission_at(ray) for Background and 0 for None, both without a
\* further call; a path cut at max_depth contributes 0 at that level.
C20_Composition ==
    /\ rpc = "return" =>
          /\ result.color = PathColor(depth + 1)
          /\ result.steps = ray.steps_taken
    /\ \A k \in 1 .. Len(path) :
          /\ path[k].kind # "object" => k = Len(path)
          /\ path[k].kind = "cut" <=> k > max_depth
          /\ (path[k].kind = "background" /\ rpc = "return") =>
                path[k].mat.emission = EmissionAt(scene.background, ray)
          /\ path[k].kind = "none" => path[k].mat = MaterialBlack

\* ---- LookupTable (lut.rs) ----
\* the entries of a table: keys up to MaxKey, tables of up to MaxLutLen entries
MaxKey == 4
MaxLutLen == 3
LutKeys == {k \in 0 .. MaxKey : k % 2 = 0}
LutItems == {0, 1, 3}
LutEntries == {<<k, v>> : k \in LutKeys, v \in LutItems}
LutInputs == UNION {[1 .. n -> LutEntries] : n \in 1 .. MaxLutLen}
LutValues == -1 .. (MaxKey + 1)

\* data.sort_by(key): a stable sort, here by insertion from the left
RECURSIVE InsertByKey(_, _)
InsertByKey(sorted, e) ==
    IF sorted = <<>> THEN <<e>>
    ELSE IF sorted[Len(sorted)][1] <= e[1] THEN Append(sorted, e)
    ELSE Append(InsertByKey(SubSeq(sorted, 1, Len(sorted) - 1), e), sorted[Len(sorted)])
RECURSIVE SortByKey(_)
SortByKey(data) ==
    IF data = <<>> THEN <<>>
    ELSE InsertByKey(SortByKey(SubSeq(data, 1, Len(data) - 1)), data[Len(data)])

\* binary_search_by(key cmp value): the indices it can return as Ok, and the
\* insertion point it returns as Err when there is none
SearchOk(data, value) == {i \in 1 .. Len(data) : data[i][1] = value}
SearchErr(data, value) == Cardinality({i \in 1 .. Len(data) : data[i][1] < value})

\* prev.lerp(next, factor) for the factor fn / fd, as a fraction over fd
Lerp(prev, next, fn, fd) == <<prev * (fd - fn) + next * fn, fd>>

\* lookup past the binary search: v is the insertion point, counted from 0
LookupBetween(data, value, v) ==
    LET prev == data[Min2(Max2(v, 1) - 1, Len(data) - 2) + 1]
        next == data[Min2(Max2(v, 1), Len(data) - 1) + 1]
        fn == value - prev[1]
        fd == next[1] - prev[1]
    IN IF fd = 0
       THEN Lerp(prev[2], next[2], IF fn > 0 THEN 1 ELSE 0, 1)
       ELSE Lerp(prev[2], next[2], fn, fd)

InitLut ==
    /\ RendererIdle("from_vec")
    /\ MarcherAtRest
    /\ ShapeAtRest
    /\ LoaderAtRest
    /\ lut_input \in LutInputs
    /\ lut_value \in LutValues
    /\ lut_data = <<>>
    /\ lut_out = NoLookup

lfixed == <<should_render, scene, window, frame, current_scale, sample, rows_done, back_fb,
            filter, offset, cvars, svars, avars, hvars, ray, march_i, depth, max_steps,
            max_depth, max_step, pending, result, marcher, marches, iteration, path,
            shape, point, dist, lut_input, lut_value, dropped, tvars>>

\* LookupTable::from_vec_sorted: the data is taken as it is given
FromVecSorted ==
    /\ rpc = "from_vec"
    /\ IF Len(lut_input) <= 1
       THEN rpc' = "panic" /\ lut_data' = lut_data
       ELSE rpc' = "lookup" /\ lut_data' = lut_input
    /\ UNCHANGED <<lfixed, lut_out>>

\* LookupTable::from_vec
FromVec ==
    /\ rpc = "from_vec"
    /\ IF Len(lut_input) <= 1
       THEN rpc' = "panic" /\ lut_data' = lut_data
       ELSE rpc' = "lookup" /\ lut_data' = SortByKey(lut_input)
    /\ UNCHANGED <<lfixed, lut_out>>

\* LookupTable::lookup
Lookup ==
    /\ rpc = "lookup"
    /\ IF SearchOk(lut_data, lut_value) # {}
       THEN \E i \in SearchOk(lut_data, lut_value) : lut_out' = <<lut_data[i][2], 1>>
       ELSE lut_out' = LookupBetween(lut_data, lut_value, SearchErr(lut_data, lut_value))
    /\ rpc' = "lut_done"
    /\ UNCHANGED <<lfixed, lut_data>>

NextLut == FromVec \/ Lookup

SpecLut == InitLut /\ [][NextLut]_vars

\* the entries given have distinct keys
DistinctKeys == \A i, j \in 1 .. Len(lut_input) : lut_input[i][1] = lut_input[j][1] => i = j
\* the fraction out is the value at x of the line through the entries a and b
OnLine(out, a, b, x) ==
    /\ out[2] > 0
    /\ out[1] * (b[1] - a[1]) = out[2] * (a[2] * (b[1] - x) + b[2] * (x - a[1]))
\* the entries given, and whether a is followed by b in the order of the keys
Given == {lut_input[i] : i \in 1 .. Len(lut_input)}
Neighbours(a, b) == a[1] < b[1] /\ ~\E c \in Given : a[1] < c[1] /\ c[1] < b[1]

\* C14: a table built by from_vec from two or more entries with distinct keys,
\* in any order, returns the stored value at a key, the linear interpolation
\* of the two neighbouring entries between two keys, and the line through the
\* first two (last two) entries below the smallest (above the largest) key.
C14_LookupLinear ==
    (rpc = "lut_done" /\ DistinctKeys) =>
        \A a, b \in Given :
            /\ a[1] = lut_value => lut_out = <<a[2], 1>>
            /\ Neighbours(a, b) =>
                  /\ (a[1] < lut_value /\ lut_value < b[1]) => OnLine(lut_out, a, b, lut_value)
                  /\ (lut_value < a[1] /\ \A c \in Given : a[1] <= c[1]) =>
                        OnLine(lut_out, a, b, lut_value)
                  /\ (lut_value > b[1] /\ \A c \in Given : c[1] <= b[1]) =>
                        OnLine(lut_out, a, b, lut_value)
\* three entries given out of order, looked up above the largest key: the
\* value is off every stored one
C14_Witness ==
    /\ rpc = "lut_done"
    /\ DistinctKeys
    /\ Len(lut_input) = 3
    /\ lut_input[1][1] > lut_input[2][1]
    /\ \A c \in Given : c[1] < lut_value
    /\ \A c \in Given : lut_out # <<c[2], 1>>

\* ---- scene files dropped on the window (scene_loader.rs, app.rs) ----
\* a scene file: whether it can be read, the shape of its object with the
\* "radius" item of the stub, and the scene it describes
RadiusItems ==
    {[kind |-> "absent", value |-> 0], [kind |-> "text", value |-> 0]}
        \cup {[kind |-> "float", value |-> x] : x \in {-1, 0, 1}}
ShapeNames == {"sphere", "cube", "pyramid"}
SceneFiles ==
    {[readable |-> r, name |-> n, radius |-> x, scene |-> sc] :
        r \in BOOLEAN, n \in ShapeNames, x \in RadiusItems, sc \in Scenes}

\* Sphere::set_radius
SetRadius(radius) == IF radius <= 0 THEN "panic" ELSE "ok"
\* extract_float!(stub, sphere, Sphere::set_radius, "radius")
ExtractFloat(item) ==
    CASE item.kind = "absent" -> "ok"
      [] item.kind = "text" -> "err"
      [] OTHER -> SetRadius(item.value)
\* build_shape
BuildShape(file) ==
    CASE file.name = "sphere" -> ExtractFloat(file.radius)
      [] file.name = "cube" -> "ok"
      [] OTHER -> "err"
\* load_path: Ok(scene) is "ok", Err(e) is "err"; "panic" is the panic of set_radius
LoadPath(file) == IF ~file.readable THEN "err" ELSE BuildShape(file)

\* WindowEvent::DroppedFile(path) with the file at the path; a panic ends the
\* display thread and with it the application
AppDroppedFile(file) ==
    /\ app_pc = "events"
    /\ nsent < budget
    /\ dropped' = LoadPath(file)
    /\ CASE LoadPath(file) = "ok" ->
              /\ AppSend(MsgSceneChange(file.scene))
              /\ app_scene' = file.scene
              /\ nsent' = nsent + 1
              /\ app_pc' = app_pc
         [] LoadPath(file) = "err" ->
              UNCHANGED <<inq, app_scene, nsent, app_pc>>
         [] OTHER ->
              /\ app_pc' = "panicked"
              /\ UNCHANGED <<inq, app_scene, nsent>>
    /\ UNCHANGED <<rvars, cvars, front_fb, readers, outq, budget, hvars, ray, march_i, depth,
                   max_steps, max_depth, max_step, pending, result, marcher, marches,
                   iteration, path, shape, point, dist, lvars, tvars>>

NextLoad ==
    \/ RenderNext
    \/ AppNext
    \/ \E file \in SceneFiles : AppDroppedFile(file)

SpecLoad == Init /\ [][NextLoad]_vars

\* C15: when the load of a dropped scene file fails, no SceneChange is sent,
\* the scene of the renderer and of the event loop stay as they are, and the
\* application keeps running its event loop.
C15_FailedLoadKeepsRunning ==
    [][\A file \in SceneFiles :
          (LoadPath(file) # "ok" /\ AppDroppedFile(file)) =>
              /\ inq' = inq
              /\ app_scene' = app_scene
              /\ scene' = scene
              /\ app_pc' = "events"]_vars

\* ---- frame buffer dimensions ----
\* the buffer of fb holds width * height pixels
WholeBuffer(fb) == DOMAIN fb.buffer = ProbesBelow(fb.width * fb.height)
\* a sample pass has just started
PassStarts == rpc = "scan" /\ rows_done = {}

Swapping ==
    /\ rpc = "publish"
    /\ rows_done = Rows
    /\ front_fb' = back_fb
    /\ back_fb' = front_fb
\* the render thread replaces the front buffer while it handles a Resize
Replacing ==
    /\ rpc \in {"recv", "loop"}
    /\ inq # <<>>
    /\ Head(inq).type = "Resize"
    /\ front_fb' = FrameBufferNew(Head(inq).w, Head(inq).h)

\* C16: the front buffer is written only by the swap of a whole pass or by the
\* replacement on Resize, both while no thread holds the read lock, the render
\* thread included, and never during the computation of a sample, which runs
\* under the render thread's read lock; so the front buffer stays as it is
\* for as long as the display thread reads it.
C16_WriteLockScope ==
    /\ [][front_fb' # front_fb =>
             /\ readers = {}
             /\ rpc # "scan"
             /\ Swapping \/ Replacing]_vars
    /\ [](rpc = "scan" <=> "render" \in readers)
    /\ [][rpc = "scan" => front_fb' = front_fb]_vars
    /\ [][("display" \in readers /\ app_pc = "reading") => front_fb' = front_fb]_vars
\* the render thread has a whole pass to publish while the display thread
\* holds the read lock
C16_Witness ==
    /\ rpc = "publish"
    /\ "display" \in readers
    /\ back_fb # front_fb

\* ---- Scene::max_possible_step ----
\* the diagonal of the box around origin and every object's bounding box, each
\* side the maximum minus the minimum along its own axis
BoxDiagonal(sc, origin) ==
    LET b == BoundsLoop(sc.objects, 1,
                 AABBOf(origin[1], origin[1], origin[2], origin[2], origin[3], origin[3]))
        dx == b.x_max - b.x_min
        dy == b.y_max - b.y_min
        dz == b.z_max - b.z_min
        dxy == CeilSqrt(dx * dx + dy * dy)
    IN CeilSqrt(dxy * dxy + dz * dz)

\* C21: max_possible_step(origin) is the diagonal sqrt(dx^2 + dy^2 + dz^2) of
\* the axis-aligned box that encloses origin and every object bounding box,
\* each of dx, dy, dz taken along its own axis.
C21_MaxStepIsDiagonal ==
    rpc \in {"color_for_ray", "march", "Object", "Background", "None", "return"} =>
        max_step = BoxDiagonal(scene, scene.camera)

\* ---- publication throttle ----
\* a publication: the front buffer is exchanged or an Update is queued
Published == front_fb' # front_fb \/ Len(sent') > Len(sent)

InitBatch == InitWith(Configs, {BoxFilterNew, BlackmanHarrisFilterNew})
SpecBatch == InitBatch /\ [][Next]_vars

\* T::new(filter_size) of the filter's type
FreshFilter(f) == IF f.kind = "BoxFilter" THEN BoxFilterNew ELSE BlackmanHarrisFilterNew
\* the filter after k calls of next()
RECURSIVE FilterAfter(_, _)
FilterAfter(f, k) == IF k = 0 THEN f ELSE FilterNextState(FilterAfter(f, k - 1))
\* the first pass of a batch: the ladder is on its coarsest rung at sample 0
FirstPass == rpc = "loop" /\ rpc' = "scan" /\ sample = 0 /\ current_scale = X8

\* C24: every sample loop starts at sample 0 with the pixel filter reset: the
\* offsets of a batch are those a freshly constructed filter yields, whatever
\* batches ran before (the first offset of every batch; every offset of the
\* batch when no coarser rung precedes the desired scale).
C24_BatchOffsetsFresh ==
    [][/\ FirstPass => offset' = FilterNextOffset(FreshFilter(filter))
       /\ (rpc = "loop" /\ rpc' = "scan" /\ scaling = X8) =>
              offset' = FilterNextOffset(FilterAfter(FreshFilter(filter), sample))]_vars

\* ---- order of the samples ----
\* passes that have integrated probe p since sample 0 of the present frame size
Integrated(p) == Len(log[p])

\* C23: within one batch at a fixed frame size every pixel of sample N is
\* integrated before any pixel of sample N + 1 is started (while pass `sample`
\* is under way every pixel has been integrated by the passes 0 .. sample - 1,
\* and by pass `sample` exactly when its row is done), and the sample indices
\* of the successive publications to the front buffer are strictly increasing.
C23_SampleOrder ==
    /\ rpc = "scan" =>
           \A y \in Rows : \A p \in ProbesInRow(y) :
               Integrated(p) = sample + (IF y \in rows_done THEN 1 ELSE 0)
    /\ rpc \in {"publish", "send"} =>
           \A y \in Rows : \A p \in ProbesInRow(y) : Integrated(p) = sample + 1
    /\ \A i, j \in DOMAIN published : i < j => published[i] < published[j]
    /\ \A i \in DOMAIN published : published[i] <= sample

C23_Witness ==
    /\ rpc = "scan"
    /\ sample = 1
    /\ rows_done # {}
    /\ rows_done # Rows
    /\ published = <<0>>

\* ---- a ray lost in a distortion ----
BendScenes == MarchScenes \cup {HorizonScene, PassScene}
InitBend == InitMarchIn({"RayMarcher"}, BendScenes)
SpecBend == InitBend /\ [][NextMarch]_vars

\* an active distortion of the iteration audited by a has strength_at(p) > 9.0,
\* or bending the ray by it gives dot(old_dir, new_dir) < 0
Overwhelmed(a) ==
    \E k \in 1 .. Len(a.active) :
        LET distortion == scene.distortions[a.active[k]]
            l == VSub(distortion.shape.center, a.before.location)
        IN \/ TooStrong(distortion, a.before.location)
           \/ Outweighs(distortion, a.before.location, a.dst, 0 - Dot(a.before.direction, l))
\* the None arm of color_for_ray: colour 0 and the steps taken, no error
NoneArm == rpc = "None" => (rpc' = "return" /\ result'.color = Black
                                /\ result'.steps = ray.steps_taken /\ ray' = ray)

\* C25 (as stated): in a march iteration with active distortions, if an active
\* distortion has strength_at(p) > 9.0, or bending the ray by it reverses the
\* ray, march_to_object returns None; color_for_ray then returns colour 0 for
\* that level and no error is raised.
C25_LostRayNone ==
    [][/\ (rpc = "march" /\ iteration' # iteration /\ Overwhelmed(iteration'.audit)) =>
              rpc' = "None"
       /\ NoneArm]_vars

\* C25 (amended): the same, unless the iteration has already returned an
\* object (a volumetric object that scattered the ray, or a solid object
\* closer than 0.00001): the hit test comes before the bend.
C25_LostRayNoneUnlessHit ==
    [][/\ (rpc = "march" /\ iteration' # iteration /\ Overwhelmed(iteration'.audit)) =>
              IF iteration'.obj # 0 THEN rpc' = "Object" ELSE rpc' = "None"
       /\ NoneArm]_vars

C25_Witness ==
    /\ rpc = "return"
    /\ iteration.n > 0
    /\ iteration.kind = "None"
    /\ Overwhelmed(iteration.audit)
    /\ iteration.obj = 0
    /\ result.set /\ result.color = Black

\* ---- the direction of a ray ----
\* a march is under way or has just returned
Marching == rpc \in {"march", "Object", "Background", "None"} /\ iteration.n > 0

\* C30: march_to_object changes ray.direction only in iterations in which at
\* least one distortion is active (the ray location is then within its
\* sphere); a ray that never enters the sphere of any distortion ends the
\* march with the direction it started with.
C30_DirectionKept ==
    /\ [][(rpc = "march" /\ ray'.direction # ray.direction) =>
             /\ iteration'.audit.active # <<>>
             /\ InsideSome(scene, ray.location)]_vars
    /\ []((Marching /\ ~iteration.entered) => ray.direction = iteration.start)

\* a ray bent inside a distortion
C30_Witness ==
    /\ Marching
    /\ iteration.entered
    /\ ray.direction # iteration.start

\* ---- the scanlines of one pass ----
\* the pixel the serial loop leaves after the first k sample colours of l
RECURSIVE SerialPixel(_, _)
SerialPixel(l, k) ==
    IF k = 0 THEN PixelBlack
    ELSE BlendPixel(SerialPixel(l, k - 1), SerialPixel(l, k - 1), l[k], k - 1)
\* the steps of the first k sample colours of l: their sum and their maximum
RECURSIVE LoggedSum(_, _)
LoggedSum(l, k) == IF k = 0 THEN 0 ELSE LoggedSum(l, k - 1) + l[k].steps
RECURSIVE LoggedMax(_, _, _)
LoggedMax(l, k, m) == IF k = 0 THEN m ELSE LoggedMax(l, k - 1, IF l[k].steps > m THEN l[k].steps ELSE m)
\* the same over the sample colours of every pixel
TotalLogged ==
    LET S[p \in -1 .. (Cardinality(ProbeIdx) - 1)] ==
            IF p = -1 THEN 0 ELSE S[p - 1] + LoggedSum(log[p], Len(log[p]))
    IN S[Cardinality(ProbeIdx) - 1]
MaxLogged ==
    LET S[p \in -1 .. (Cardinality(ProbeIdx) - 1)] ==
            IF p = -1 THEN 0 ELSE LoggedMax(log[p], Len(log[p]), S[p - 1])
    IN S[Cardinality(ProbeIdx) - 1]
\* one scanline task has run: the row y it was given
RowTaken(y) == y \in CliRows \ rows_done /\ rows_done' = rows_done \cup {y}

\* C26: within one sample pass each frame buffer row is written by exactly
\* one scanline task, and no task reads a row written by another task of the
\* pass; so, the sample colours of the pixels being given, the frame buffer
\* and the TOTAL_STEPS and MAX_STEPS_PER_SAMPLE counters are the same for
\* every order and interleaving of the scanline tasks, and equal to what the
\* serial loop (threads = 1) leaves: each pixel is the serial blend of its own
\* sample colours, the counters the sum and the maximum of all the steps.
C26_ScanlinesIndependent ==
    /\ [](rpc \in {"cli_loop", "cli_scan"} =>
            /\ \A y \in CliRows : \A p \in SliceProbes(y) :
                  /\ Len(log[p]) = sample + (IF rpc = "cli_scan" /\ y \in rows_done THEN 1 ELSE 0)
                  /\ back_fb.buffer[p] = SerialPixel(log[p], Len(log[p]))
            /\ total_steps = TotalLogged % (2 ^ CounterWidth)
            /\ max_steps_per_sample = MaxLogged)
    /\ [][(rpc = "cli_scan" /\ rows_done' # rows_done) =>
             \E y \in CliRows :
                 /\ RowTaken(y)
                 /\ \A p \in DOMAIN back_fb.buffer :
                       back_fb'.buffer[p] =
                           IF p \in SliceProbes(y)
                           THEN BlendPixel(back_fb.buffer[p], back_fb.buffer[p],
                                           log'[p][Len(log'[p])], sample)
                           ELSE back_fb.buffer[p]]_vars

\* on two threads, the second row was computed before the first
C26_Witness ==
    /\ rpc = "cli_scan"
    /\ threads = 2
    /\ sample = 1
    /\ region.whole
    /\ rows_done = {1}
    /\ total_steps > 0
    /\ \E p \in SliceProbes(1) : log[p][1] # log[p][2]

\* ---- the end of a batch ----
\* the render thread runs whenever it can, and the display thread drops the
\* read lock it took for the texture upload (the guard goes out of scope)
SpecWait == InitLive /\ [][Next]_vars /\ WF_vars(RenderNext) /\ WF_vars(AppUpdateEnd)
\* the render thread waits in rx.recv() (or has returned)
Blocked == rpc \in {"recv", "exit"}
\* a sample pass is being computed or published
InPass == rpc \in {"scan", "publish", "send"}

\* C27: if no inbound message arrives the renderer performs at most `samples`
\* sample passes for the current batch at its final scale (a pass has an index
\* below samples, and a pixel is integrated at most samples times), then
\* blocks on the inbound queue: with the queue empty it eventually waits in
\* recv, and while it waits there it does nothing and sends no Update until a
\* message is received.
C27_BatchEnds ==
    /\ [](sample <= samples /\ (InPass => sample < samples))
    /\ []((current_scale = scaling /\ rpc \in {"loop", "scan", "publish", "send"}) =>
             \A p \in ProbeIdx : Len(log[p]) <= samples)
    /\ [][(rpc = "loop" /\ sample >= samples /\ rvars' # rvars) =>
             (rpc' = "recv" /\ sent' = sent /\ outq' = outq)]_vars
    /\ [][(rpc = "recv" /\ inq = <<>>) =>
             (rvars' = rvars /\ sent' = sent /\ Len(outq') <= Len(outq))]_vars
    /\ (inq = <<>>) ~> (Blocked \/ inq # <<>>)

\* the whole budget of a batch was rendered at the desired scale, and the
\* renderer waits for a message
C27_Witness ==
    /\ rpc = "recv"
    /\ inq = <<>>
    /\ scene # NoScene
    /\ current_scale = scaling
    /\ sample = samples
    /\ Len(sent) >= 1
    /\ \E p \in ProbeIdx : Len(log[p]) = samples

\* ---- before the first scene ----
\* what a sample pass or a publication would have changed
PassTraces == <<sample, filter, offset, rows_done, log, sent, outq, published,
                total_steps, max_steps_per_sample>>

\* C28: the interactive renderer computes no sample pass and sends no Update
\* until it has received a SceneChange: while no scene is set it waits in recv
\* (or has returned), nothing has been drawn from the filter, integrated,
\* counted or sent, and the Resize and Restart messages it handles change only
\* the frame size, the buffers (fresh ones) and the should_render flag.
C28_NothingBeforeScene ==
    /\ [](scene = NoScene =>
            /\ Blocked
            /\ sample = 0 /\ filter = BlackmanHarrisFilterNew /\ log = EmptyLog
            /\ sent = <<>> /\ outq = <<>> /\ published = <<>>
            /\ total_steps = 0 /\ max_steps_per_sample = 0
            /\ Zeroed(back_fb) /\ Zeroed(front_fb))
    /\ [][(scene = NoScene /\ scene' = NoScene) => UNCHANGED PassTraces]_vars

\* a Restart and a Resize were handled with no scene set
C28_Witness ==
    /\ scene = NoScene
    /\ rpc = "recv"
    /\ should_render
    /\ window # InitWindow
    /\ inq = <<>>

\* ---- the Samples blend of the interactive renderer ----
\* the steps of the published samples of pixel p: the samples of the batch
\* whose indices are the first k of `published`
RECURSIVE PublishedSteps(_, _)
PublishedSteps(p, k) ==
    IF k = 0 THEN 0 ELSE PublishedSteps(p, k - 1) + log[p][published[k] + 1].steps

\* C29: in interactive mode with mode = Samples, after k sample passes of a
\* batch have been published, the r channel of every front-buffer pixel is
\* the sum of the step counts of exactly those k samples of that batch for
\* that pixel: no sample missing, none counted from an earlier batch.
C29_SamplesSum ==
    (mode = "Samples" /\ rpc = "send") =>
        \A p \in FrameProbes :
            front_fb.buffer[p].r = Frac[PublishedSteps(p, Len(published)), 1]


====
